---- MODULE Spec2Model ----
(***************************************************************************)
(* Model of the research pipeline of rafailvv/Maclay:                      *)
(*   - ConnectionManager (src/main.py): the per-run progress channel,      *)
(*   - websocket_endpoint (src/main.py): the observer's connection task,   *)
(*   - ResearchProcessor (src/research_stages.py): the stage executor,     *)
(*     the five stages and the link verifier,                              *)
(*   - process_research_background (src/main.py): the run task.            *)
(* Texts are sequences of atoms (one-character strings, or a word / URL    *)
(* that no pattern of the code splits).  The timestamp field of a message  *)
(* is left out: no code path reads it.                                     *)
(***************************************************************************)
EXTENDS Integers, Sequences, FiniteSets, TLC

\* ---------------------------------------------------------------- bounds
MaxConns == 2      \* websocket connections opened during one behaviour
MaxDocs == 1       \* PDF files in the data directory
MaxSends == 3      \* send_message calls of the abstract senders (SpecChan)
MaxSegs == 3       \* segments of a text given to the link verifier (SpecLinks)
MaxLines == 3      \* lines of a text given to an extractor
MaxChars == 4      \* atoms of a text given to clean_report_content (SpecClean)

\* ------------------------------------------------------ program constants
MaxRetries == 3    \* max_retries default of _execute_with_retry

RunIds == {"r1", "r2"}
Conns == 1..MaxConns

VARIABLES
    active_connections, \* ConnectionManager.active_connections: client_id -> websocket
    client_state,       \* websocket.client_state of every websocket object
    ws_client,          \* client_id path parameter of each websocket_endpoint task
    ws_task,            \* position of each websocket_endpoint task
    sends,              \* per sender, its latest send_message call: [msg, st, conn]
    lastDelivery,       \* what the latest send_message call put on the wire so far
    pc,                 \* position of the run task (process_research_background)
    pending,            \* send_update calls the current code segment still makes before pc
    ctx,                \* which try block the pending calls sit in
    stage,              \* index of the stage process_research is in (1..5)
    attempt,            \* loop variable of _execute_with_retry
    last_exception,     \* last_exception of _execute_with_retry
    ndocs,              \* len(pdf_files) of the running local_documents attempt
    doc_idx,            \* loop variable i of the PDF loop
    cases,              \* cases returned by analyze_cases
    report,             \* report / report_content
    links,              \* links found by verify_report_links
    link_idx,           \* loop variable of the probe loop
    verified_links,     \* verify_report_links.verified_links
    broken_links,       \* verify_report_links.broken_links
    result,             \* what process_research returned
    stored,             \* contents handed to ReportService.create_report
    retval,             \* value the running stage function returned
    nsends,             \* send_message calls of the abstract senders
    order,              \* how the stages of the run ended so far, in order
    trace               \* what the run task did since it entered its current stage

chanVars == <<active_connections, client_state, ws_client, ws_task, sends, lastDelivery>>

\* ------------------------------------------------------- ConnectionManager

\* dict without key k
DropKey(f, k) == [x \in DOMAIN f \ {k} |-> f[x]]

\* dict with f[k] = v
PutKey(f, k, v) == [x \in DOMAIN f \cup {k} |-> IF x = k THEN v ELSE f[x]]

\* faulty variant: an entry in use is kept
RegisterIfAbsent(ac, client_id, websocket) ==
    IF client_id \in DOMAIN ac THEN ac ELSE PutKey(ac, client_id, websocket)

\* ConnectionManager.connect: self.active_connections[client_id] = websocket
Register(ac, client_id, websocket) == PutKey(ac, client_id, websocket)

\* faulty variant: every entry is deleted
DisconnectAll(ac, client_id) == <<>>

\* ConnectionManager.disconnect: delete the entry of client_id, whoever it holds
Disconnect(ac, client_id) == IF client_id \in DOMAIN ac THEN DropKey(ac, client_id) ELSE ac

\* faulty variant: nothing is purged
CleanupNothing(ac) == ac

\* ConnectionManager.cleanup_disconnected: drop every entry whose websocket is
\* not in state CONNECTED
CleanupDisconnected(ac) ==
    LET disconnected_clients == {r \in DOMAIN ac : client_state[ac[r]] # "CONNECTED"}
    IN  [x \in DOMAIN ac \ disconnected_clients |-> ac[x]]

\* the try/except around websocket.send_text in send_message: how the call
\* ends when the transport accepted the text (ok) or raised
\* faulty variant: no try/except around send_text
SendTextUnguarded(ok) == IF ok THEN "sent" ELSE "raised"

SendTextGuarded(ok) == IF ok THEN "sent" ELSE "caught"

\* faulty variant: the payload goes out twice
WireTwice(conn, msg) == <<[conn |-> conn, msg |-> msg], [conn |-> conn, msg |-> msg]>>

\* what send_text puts on the wire for one call: the payload, once, on the
\* websocket looked up before the await
Wire(conn, msg) == <<[conn |-> conn, msg |-> msg]>>

\* send_message up to its await: cleanup, lookup, state check.  The call is
\* left pending on the websocket found, or ends at once.
SendBegin(r, m, keep) ==
    LET ac1 == CleanupDisconnected(active_connections)
        dropped == IF keep
                   THEN PutKey(sends, r, [msg |-> m, st |-> "dropped", conn |-> 0])
                   ELSE DropKey(sends, r)
    IN  /\ IF r \in DOMAIN ac1
           THEN IF client_state[ac1[r]] = "CONNECTED"
                THEN /\ active_connections' = ac1
                     /\ sends' = PutKey(sends, r, [msg |-> m, st |-> "pending", conn |-> ac1[r]])
                ELSE /\ active_connections' = Disconnect(ac1, r)
                     /\ sends' = dropped
           ELSE /\ active_connections' = ac1
                /\ sends' = dropped
        /\ lastDelivery' = <<>>
        /\ UNCHANGED <<client_state, ws_client, ws_task>>

\* TRUE when SendBegin(r, m, keep) leaves the call waiting on send_text
SendSuspends(r) ==
    LET ac1 == CleanupDisconnected(active_connections)
    IN  r \in DOMAIN ac1 /\ client_state[ac1[r]] = "CONNECTED"

\* send_message from the return of send_text on: the text went out (ok, only
\* on a websocket still connected) or send_text raised and the handler runs
\* disconnect(client_id).  The record of the call stays for a caller that
\* looks at how it ended (keep) and goes with the call otherwise.
SendEnd(r, ok, keep) ==
    /\ r \in DOMAIN sends
    /\ sends[r].st = "pending"
    /\ ok => client_state[sends[r].conn] = "CONNECTED"
    /\ LET how == SendTextGuarded(ok)
       IN  /\ sends' = IF keep THEN [sends EXCEPT ![r].st = how] ELSE DropKey(sends, r)
           /\ lastDelivery' = IF ok THEN Wire(sends[r].conn, sends[r].msg) ELSE <<>>
           /\ active_connections' = IF how = "caught"
                                    THEN Disconnect(active_connections, r)
                                    ELSE active_connections
    /\ UNCHANGED <<client_state, ws_client, ws_task>>

\* ------------------------------------------------------ websocket_endpoint

\* manager.connect: accept the websocket and register it under client_id,
\* replacing whatever was registered; the task then waits in receive_text
WsConnect(c, r) ==
    /\ client_state[c] = "CONNECTING"
    /\ \A d \in Conns : d < c => client_state[d] # "CONNECTING"
    /\ client_state' = [client_state EXCEPT ![c] = "CONNECTED"]
    /\ active_connections' = Register(active_connections, r, c)
    /\ ws_client' = [ws_client EXCEPT ![c] = r]
    /\ ws_task' = [ws_task EXCEPT ![c] = "receiving"]
    /\ UNCHANGED <<sends, lastDelivery>>

\* the peer closes: the ASGI layer moves client_state to DISCONNECTED
ClientClose(c) ==
    /\ client_state[c] = "CONNECTED"
    /\ client_state' = [client_state EXCEPT ![c] = "DISCONNECTED"]
    /\ UNCHANGED <<active_connections, ws_client, ws_task, sends, lastDelivery>>

\* receive_text raises WebSocketDisconnect: the task calls
\* manager.disconnect(client_id) and ends
WsDisconnect(c) ==
    /\ ws_task[c] = "receiving"
    /\ client_state[c] = "DISCONNECTED"
    /\ active_connections' = Disconnect(active_connections, ws_client[c])
    /\ ws_task' = [ws_task EXCEPT ![c] = "ended"]
    /\ UNCHANGED <<client_state, ws_client, sends, lastDelivery>>

ChanInit ==
    /\ active_connections = <<>>
    /\ client_state = [c \in Conns |-> "CONNECTING"]
    /\ ws_client = [c \in Conns |-> "r1"]
    /\ ws_task = [c \in Conns |-> "none"]
    /\ sends = <<>>
    /\ lastDelivery = <<>>

\* ------------------------------------------------------------------ texts

InternalPrefix == "http://maclay.pro/data/"

IsSpace(a) == a \in {" ", "\n"}

\* least j >= i with s[j] = a, or 0
IndexFrom(s, a, i) ==
    LET hits == {j \in i..Len(s) : s[j] = a}
    IN  IF hits = {} THEN 0 ELSE CHOOSE j \in hits : \A k \in hits : j <= k

\* str.startswith at position i
StartsAt(s, i, p) == i + Len(p) - 1 <= Len(s) /\ SubSeq(s, i, i + Len(p) - 1) = p

\* the substring test `p in s`
Contains(s, p) == \E i \in 1..(Len(s) + 1) : StartsAt(s, i, p)

\* "[text](url)"
LinkSyntax(text, url) == <<"[">> \o text \o <<"]", "(">> \o url \o <<")">>

\* re.findall(r'\[([^\]]+)\]\(([^)]+)\)', s) scanning from position i
RECURSIVE FindLinksFrom(_, _)
FindLinksFrom(s, i) ==
    IF i > Len(s) THEN <<>>
    ELSE LET j == IndexFrom(s, "]", i + 1)
             k == IF j = 0 THEN 0 ELSE IndexFrom(s, ")", j + 2)
         IN  IF /\ s[i] = "["
                /\ j > i + 1
                /\ j + 1 <= Len(s)
                /\ s[j + 1] = "("
                /\ k > j + 2
             THEN <<[text |-> SubSeq(s, i + 1, j - 1), url |-> SubSeq(s, j + 2, k - 1)]>>
                  \o FindLinksFrom(s, k + 1)
             ELSE FindLinksFrom(s, i + 1)

FindLinks(s) == FindLinksFrom(s, 1)

\* url.startswith('http://maclay.pro/data/')
IsInternal(url) == Len(url) >= 1 /\ url[1] = InternalPrefix

\* s.replace(old, "")
RECURSIVE RemoveAll(_, _)
RemoveAll(s, old) ==
    IF Len(s) < Len(old) THEN s
    ELSE IF StartsAt(s, 1, old)
         THEN RemoveAll(SubSeq(s, Len(old) + 1, Len(s)), old)
         ELSE <<s[1]>> \o RemoveAll(Tail(s), old)

\* length of the longest whitespace prefix of s
RECURSIVE SpaceRun(_)
SpaceRun(s) == IF s # <<>> /\ IsSpace(s[1]) THEN 1 + SpaceRun(Tail(s)) ELSE 0

\* positions of the newlines within the first n atoms of s
NewlinesIn(s, n) == {j \in 1..n : s[j] = "\n"}

SetMax(S) == CHOOSE m \in S : \A x \in S : x <= m

\* re.sub(r'\n\s*\n\s*\n', '\n\n', s)
RECURSIVE CollapseBlankLines(_)
CollapseBlankLines(s) ==
    IF s = <<>> THEN <<>>
    ELSE LET nl == NewlinesIn(s, SpaceRun(s))
         IN  IF s[1] = "\n" /\ Cardinality(nl) >= 3
             THEN <<"\n", "\n">> \o CollapseBlankLines(SubSeq(s, SetMax(nl) + 1, Len(s)))
             ELSE <<s[1]>> \o CollapseBlankLines(Tail(s))

\* re.sub(r'^\s*\n', '', s, flags=re.MULTILINE); bol: s starts a line
RECURSIVE RemoveBlankLines(_, _)
RemoveBlankLines(s, bol) ==
    IF s = <<>> THEN <<>>
    ELSE LET nl == NewlinesIn(s, SpaceRun(s))
         IN  IF bol /\ nl # {}
             THEN RemoveBlankLines(SubSeq(s, SetMax(nl) + 1, Len(s)), TRUE)
             ELSE <<s[1]>> \o RemoveBlankLines(Tail(s), s[1] = "\n")

\* str.strip()
RECURSIVE LStrip(_)
LStrip(s) == IF s # <<>> /\ IsSpace(s[1]) THEN LStrip(Tail(s)) ELSE s

RECURSIVE RStrip(_)
RStrip(s) == IF s # <<>> /\ IsSpace(s[Len(s)]) THEN RStrip(SubSeq(s, 1, Len(s) - 1)) ELSE s

Strip(s) == RStrip(LStrip(s))

\* faulty variant: broken links stay in the text
RemoveNothing(s, broken) == s

\* verify_report_links, lines 1173-1183: remove every broken link with its
\* anchor text, then clean up whitespace
RECURSIVE RemoveBroken(_, _)
RemoveBroken(s, broken) ==
    IF broken = <<>> THEN s
    ELSE RemoveBroken(RemoveAll(s, LinkSyntax(broken[1].text, broken[1].url)), Tail(broken))

CleanupWhitespace(s) == Strip(RemoveBlankLines(CollapseBlankLines(s), TRUE))

\* re.sub(f"\\[{re.escape(text)}\\]\\([^)]+\\)", f"[{text}]({url})", s)
RECURSIVE SubLink(_, _, _)
SubLink(s, text, url) ==
    IF s = <<>> THEN <<>>
    ELSE LET head == <<"[">> \o text \o <<"]", "(">>
             k == IndexFrom(s, ")", Len(head) + 1)
         IN  IF StartsAt(s, 1, head) /\ k > Len(head) + 1
             THEN LinkSyntax(text, url) \o SubLink(SubSeq(s, k + 1, Len(s)), text, url)
             ELSE <<s[1]>> \o SubLink(Tail(s), text, url)

\* verify_report_links, lines 1185-1194: rewrite the links kept
RECURSIVE ReplaceVerified(_, _)
ReplaceVerified(s, verified) ==
    IF verified = <<>> THEN s
    ELSE LET text == verified[1].text
             url == verified[1].url
             s1 == IF Contains(s, <<"[">> \o text \o <<"]", "(">>)
                   THEN SubLink(s, text, url)
                   ELSE s
         IN  ReplaceVerified(s1, Tail(verified))

\* verify_report_links after its probe loop
VerifyFinish(report_content, verified, broken) ==
    LET removed == IF broken # <<>>
                   THEN CleanupWhitespace(RemoveBroken(report_content, broken))
                   ELSE report_content
    IN  ReplaceVerified(removed, verified)

\* re.sub(r'(?<!\*)\*(?!\*)(?![^*]*\*)', '', s): a star with no star before
\* it, none after it and none anywhere later in the text
DropLoneStar(s) ==
    LET drop == {i \in 1..Len(s) :
                    /\ s[i] = "*"
                    /\ (i = 1 \/ s[i - 1] # "*")
                    /\ \A j \in (i + 1)..Len(s) : s[j] # "*"}
        keep(i) == i \notin drop
        F[i \in 0..Len(s)] ==
            IF i = 0 THEN <<>>
            ELSE IF keep(i) THEN Append(F[i - 1], s[i]) ELSE F[i - 1]
    IN  F[Len(s)]

\* re.sub(r':\*\s*', ': ', s)
RECURSIVE ColonStar(_)
ColonStar(s) ==
    IF s = <<>> THEN <<>>
    ELSE IF StartsAt(s, 1, <<":", "*">>)
         THEN LET rest == SubSeq(s, 3, Len(s))
              IN  <<":", " ">> \o ColonStar(SubSeq(rest, SpaceRun(rest) + 1, Len(rest)))
         ELSE <<s[1]>> \o ColonStar(Tail(s))

\* ResearchProcessor.clean_report_content
CleanReportContent(content) ==
    IF content = <<>> THEN content ELSE ColonStar(DropLoneStar(content))

runVars == <<pc, pending, ctx, stage, attempt, last_exception, ndocs, doc_idx, cases,
             report, links, link_idx, verified_links, broken_links, result, stored, retval,
             nsends, order, trace>>

vars == <<chanVars, runVars>>

\* ---------------------------------------------------------------- messages

StageNames == <<"data_collection", "local_documents", "case_analysis",
                "report_generation", "link_verification">>

\* the dict send_update builds
Ev(stage_name, status, progress, message) ==
    [type |-> "stage_update", stage |-> stage_name, status |-> status,
     progress |-> progress, message |-> message]

\* the completion messages of process_research_background
CompletionOk(report_id) ==
    [type |-> "completion", success |-> TRUE, report_id |-> report_id, message |-> "done"]

\* faulty variant: the failure is reported as a success
CompletionFailAsOk(error) ==
    [type |-> "completion", success |-> TRUE, error |-> error, message |-> "failed"]

CompletionFail(error) ==
    [type |-> "completion", success |-> FALSE, error |-> error, message |-> "failed"]

CompletionCritical(error) ==
    [type |-> "completion", success |-> FALSE, error |-> error,
     error_details |-> "traceback", message |-> "critical"]

\* ------------------------------------------------------ inputs of one run

\* report drafts the generation service may return
Drafts == {
    <<"A", ":", "*", " ", "b">>,
    <<"[", "a", "]", "(", "u1", ")", "\n", "\n", "[", "d", "]", "(", InternalPrefix, "x.pdf", ")">>,
    <<"A", " ", "[", "a", "]", "(", "u1", ")", "\n", "\n", "\n", "[", "b", "]", "(", "u2", ")", "*">>
}

\* case lists extract_cases_from_text may return: it sets number, title,
\* company, country, sources, description and never verified_links
CaseLists == {<<>>, <<[number |-> 1, title |-> "Case 1", sources |-> <<"u1">>]>>}

\* a generation-service response: status 200 with a body, status 500, or no
\* response within the timeout (status 0)
Responses(s) ==
    {[status |-> 500, body |-> <<>>], [status |-> 0, body |-> <<>>]}
    \cup (CASE s = 3 -> {[status |-> 200, body |-> b] : b \in CaseLists}
            [] s = 4 -> {[status |-> 200, body |-> b] : b \in Drafts}
            [] OTHER -> {[status |-> 200, body |-> <<>>]})

\* ---------------------------------------------------------- trace helpers

Entry(kind, msg) == [kind |-> kind, stage |-> stage, msg |-> msg]

Count(kind, s) == Cardinality({i \in 1..Len(trace) : trace[i].kind = kind /\ trace[i].stage = s})

\* the value a stage function returns for a response (parse_market_data,
\* parse_local_insights and parse_cases are not expanded here)
StageResult(s, resp) ==
    CASE s = 3 -> resp.body
      [] s = 4 -> resp.body
      [] OTHER -> <<"parsed", resp.status>>

\* ------------------------------------------------------------ the executor

\* 2 ** attempt
\* faulty variant: the exponent starts at 0
BackoffDelayFromZero(a) == 2 ^ (a - 1)

BackoffDelay(a) == 2 ^ a

\* faulty variant: one attempt too many
RetriesLeftOneMore(a) == a < MaxRetries

\* faulty variant: one attempt too few
RetriesLeftOneLess(a) == a < MaxRetries - 2

\* attempt < max_retries - 1
RetriesLeft(a) == a < MaxRetries - 1

\* the event of the except clauses of _execute_with_retry
HandlerEvent(s, a, exc) ==
    IF RetriesLeft(a)
    THEN Ev(StageNames[s], "active", 0, IF exc = "Timeout" THEN "timeout_retry_in" ELSE "error_retry_in")
    ELSE Ev(StageNames[s], "error", 0, IF exc = "Timeout" THEN "timeout_after" ELSE "error_after")

\* line 57: the event sent before a repeated attempt
RetryAttemptEvent(s) == Ev(StageNames[s], "active", 0, "retry_attempt")

Goto(p, evs, c) == pc' = p /\ pending' = evs /\ ctx' = c

\* an exception reaches the except clauses of _execute_with_retry
ExecCatch(exc) ==
    /\ last_exception' = exc
    /\ attempt' = IF RetriesLeft(attempt) THEN attempt + 1 ELSE attempt
    /\ Goto(IF RetriesLeft(attempt) THEN "attempt" ELSE "exhausted",
            <<HandlerEvent(stage, attempt, exc)>>, "handler")
    /\ UNCHANGED result

\* faulty variant: the failure result carries the draft produced so far
OrchCatchPartial(exc) ==
    /\ result' = [success |-> FALSE, error |-> exc, error_details |-> "traceback", report |-> report]
    /\ Goto("returned", <<Ev("error", "error", 0, "orch_error")>>, "orch_except")
    /\ UNCHANGED <<attempt, last_exception>>

\* an exception reaches `except Exception` of process_research: the error
\* event, then the failure result
OrchCatch(exc) ==
    /\ result' = [success |-> FALSE, error |-> exc, error_details |-> "traceback"]
    /\ Goto("returned", <<Ev("error", "error", 0, "orch_error")>>, "orch_except")
    /\ UNCHANGED <<attempt, last_exception>>

\* an exception reaches `except Exception` of process_research_background
BgCatch(exc) ==
    /\ Goto("finish", <<CompletionCritical(exc)>>, "bg_except")
    /\ UNCHANGED <<attempt, last_exception, result>>

\* an exception leaves the task
TaskDies ==
    /\ Goto("crashed", <<>>, "none")
    /\ UNCHANGED <<attempt, last_exception, result>>

\* where an exception raised by a send_update / send_message call goes
SendRaised ==
    CASE ctx \in {"func", "try"} -> ExecCatch("send failed")
      [] ctx \in {"handler", "orch"} -> OrchCatch("send failed")
      [] ctx \in {"orch_except", "bg"} -> BgCatch("send failed")
      [] OTHER -> TaskDies

\* faulty variant: the run task waits until an observer is registered
ReadyObserved(p) ==
    /\ pc = p
    /\ pending = <<>>
    /\ "r1" \in DOMAIN active_connections

\* the run task may take its next step: nothing left to send, no send pending
Ready(p) ==
    /\ pc = p
    /\ pending = <<>>
    /\ ~("r1" \in DOMAIN sends /\ sends["r1"].st = "pending")

dataVars == <<ndocs, doc_idx, cases, report, links, link_idx, verified_links, broken_links,
              stored, retval, nsends, order>>

\* ------------------------------------------------------------- the stages

\* send_update calls of a stage function before its first decision
PreEvents(s) ==
    LET n == StageNames[s]
    IN  CASE s = 1 -> <<Ev(n, "active", 10, "prepare"), Ev(n, "active", 30, "sending"),
                        Ev(n, "active", 40, "http")>>
          [] s = 2 -> <<Ev(n, "active", 5, "scan")>>
          [] OTHER -> <<Ev(n, "active", 10, "prepare"), Ev(n, "active", 30, "sending")>>

\* send_update calls after a 200 response
OkEvents(s) ==
    LET n == StageNames[s]
    IN  CASE s = 2 -> <<Ev(n, "active", 85, "processing"), Ev(n, "active", 90, "structuring"),
                        Ev(n, "completed", 100, "found")>>
          [] s = 4 -> <<Ev(n, "active", 70, "processing"), Ev(n, "active", 90, "formatting"),
                        Ev(n, "active", 95, "adding_links"), Ev(n, "completed", 100, "ready")>>
          [] OTHER -> <<Ev(n, "active", 70, "processing"), Ev(n, "active", 90, "structuring"),
                        Ev(n, "completed", 100, "found")>>

\* send_update calls after a response whose status is not 200
Non200Events(s) ==
    LET n == StageNames[s]
    IN  CASE s = 1 -> <<Ev(n, "active", 70, "processing"), Ev(n, "error", 0, "api_error")>>
          [] s = 2 -> <<Ev(n, "error", 0, "api_error")>>
          [] OTHER -> <<Ev(n, "active", 70, "processing")>>

\* how the stage function ends after the response: local_documents returns
\* an empty result on a non-200 status, the others raise; a timeout raises
\* out of client.post in every stage
AfterCall(s, status) ==
    IF status = 200 \/ (s = 2 /\ status = 500) THEN "return" ELSE "raise"

\* the exception a failed call leaves in the stage function
CallException(status) == IF status = 0 THEN "Timeout" ELSE "API Error: 500"

\* int((i / len(pdf_files)) * 40) + 10
DocProgress(i, n) == ((i * 40) \div n) + 10

\* enhance_report_with_links, lines 1051-1063: the links it would offer
AllVerifiedLinks(cs) == SelectSeq(cs, LAMBDA c : "verified_links" \in DOMAIN c)

\* enhance_report_with_links: without verified links the draft comes back
\* before any request; otherwise the reply of the second request, or the
\* draft when that request fails
EnhanceReplies(report_content, cs) ==
    IF AllVerifiedLinks(cs) = <<>> THEN {report_content} ELSE {report_content} \cup Drafts

\* enhance_report_with_links, lines 1062-1098: the second request to the
\* generation service, made only when the cases offer verified links; it
\* carries the draft and the first 20 of those links
EnhanceRequests(report_content, cs) ==
    LET all == AllVerifiedLinks(cs)
    IN  IF all = <<>> THEN <<>>
        ELSE <<[kind |-> "enhance", stage |-> 4,
                msg |-> [draft |-> report_content,
                         links |-> SubSeq(all, 1, IF Len(all) < 20 THEN Len(all) ELSE 20)]]>>

\* process_research_background starts process_research, which announces
\* stage 1
StartRun ==
    /\ Ready("idle")
    /\ stage' = 1
    /\ Goto("enter_stage", <<Ev(StageNames[1], "active", 0, "announce")>>, "orch")
    /\ trace' = <<>>
    /\ UNCHANGED <<attempt, last_exception, result, dataVars, chanVars>>

\* collect_market_data .. generate_report enter _execute_with_retry
ExecStart ==
    /\ Ready("enter_stage")
    /\ stage <= 4
    /\ attempt' = 0
    /\ last_exception' = "none"
    /\ Goto("attempt", <<>>, "try")
    /\ UNCHANGED <<stage, result, dataVars, trace, chanVars>>

\* `result = await func(*args)`: the stage function starts
Invoke ==
    /\ Goto(IF stage = 2 THEN "listdir" ELSE "call", PreEvents(stage), "func")
    /\ UNCHANGED <<stage, attempt, last_exception, result, dataVars>>

\* faulty variant: the first attempt is announced and delayed as well
NeedsBackoffAlways(a) == a >= 0

\* `if attempt > 0`: the retry event and the backoff precede only a repeated
\* attempt
NeedsBackoff(a) == a > 0

\* top of the loop body: a first attempt invokes the function at once, a
\* repeated one sends its event first
ExecAttempt ==
    /\ Ready("attempt")
    /\ IF NeedsBackoff(attempt)
       THEN /\ Goto("backoff", <<RetryAttemptEvent(stage)>>, "try")
            /\ UNCHANGED <<stage, attempt, last_exception, result, dataVars, trace>>
       ELSE /\ Invoke
            /\ trace' = Append(trace, Entry("invoke", attempt + 1))
    /\ UNCHANGED chanVars

\* asyncio.sleep(2 ** attempt), then the function is invoked
Backoff ==
    /\ Ready("backoff")
    /\ Invoke
    /\ trace' = trace \o <<Entry("sleep", BackoffDelay(attempt)), Entry("invoke", attempt + 1)>>
    /\ UNCHANGED chanVars

\* faulty variant: an empty directory is read and a request is made
AfterListDirAlwaysRead(n) == IF n = -1 THEN "return" ELSE "readpdf"

\* how the stage function goes on after os.listdir: it returns an empty
\* result when the call raised (n = -1) and when no PDF was found
AfterListDir(n) == IF n <= 0 THEN "return" ELSE "readpdf"

\* os.listdir(data_dir): it raises (n = -1), or finds n PDF files
ListDir ==
    /\ Ready("listdir")
    /\ \E n \in -1..MaxDocs :
        LET nm == StageNames[2]
        IN  /\ ndocs' = n
            /\ doc_idx' = 0
            /\ trace' = Append(trace, Entry("listdir", n))
            /\ retval' = IF n <= 0 THEN <<"empty">> ELSE retval
            /\ Goto(AfterListDir(n),
                    CASE n = -1 -> <<Ev(nm, "error", 0, "dir_error")>>
                      [] n = 0 -> <<Ev(nm, "completed", 100, "no_pdf")>>
                      [] OTHER -> <<Ev(nm, "active", 10, "found_docs"),
                                    Ev(nm, "active", DocProgress(0, n), "document")>>,
                    "func")
    /\ UNCHANGED <<stage, attempt, last_exception, result, cases, report, links, link_idx,
                   verified_links, broken_links, stored, nsends, order, chanVars>>

\* one turn of the PDF loop: _read_pdf_text, asyncio.sleep(0.2)
ReadPdf ==
    /\ Ready("readpdf")
    /\ doc_idx' = doc_idx + 1
    /\ IF doc_idx + 1 < ndocs
       THEN Goto("readpdf", <<Ev(StageNames[2], "active", DocProgress(doc_idx + 1, ndocs), "document")>>, "func")
       ELSE Goto("call", <<Ev(StageNames[2], "active", 55, "extracted"),
                           Ev(StageNames[2], "active", 65, "analysing"),
                           Ev(StageNames[2], "active", 70, "sending")>>, "func")
    /\ UNCHANGED <<stage, attempt, last_exception, result, ndocs, cases, report, links, link_idx,
                   verified_links, broken_links, stored, retval, nsends, order, trace, chanVars>>

\* client.post to the generation service and what the stage function does
\* with the response
GenCall ==
    /\ Ready("call")
    /\ \E resp \in Responses(stage) :
        /\ IF resp.status = 200
           THEN IF stage = 4
                THEN \E enhanced \in EnhanceReplies(resp.body, cases) :
                        /\ retval' = CleanReportContent(enhanced)
                        /\ trace' = Append(trace, Entry("call", resp))
                                        \o EnhanceRequests(resp.body, cases)
                ELSE /\ retval' = StageResult(stage, resp)
                     /\ trace' = Append(trace, Entry("call", resp))
           ELSE /\ retval' = IF stage = 2 /\ resp.status = 500 THEN <<"empty">> ELSE retval
                /\ trace' = Append(trace, Entry("call", resp))
        /\ last_exception' = IF AfterCall(stage, resp.status) = "raise"
                             THEN CallException(resp.status)
                             ELSE last_exception
        /\ Goto(AfterCall(stage, resp.status),
                CASE resp.status = 200 -> OkEvents(stage)
                  [] resp.status = 500 -> Non200Events(stage)
                  [] OTHER -> <<>>,
                "func")
    /\ UNCHANGED <<stage, attempt, result, ndocs, doc_idx, cases, report, links, link_idx,
                   verified_links, broken_links, stored, nsends, order, chanVars>>

\* the stage function raised: the except clauses of _execute_with_retry
StageRaise ==
    /\ Ready("raise")
    /\ ExecCatch(last_exception)
    /\ trace' = Append(trace, Entry("raise", last_exception))
    /\ UNCHANGED <<stage, dataVars, chanVars>>

\* the stage process_research runs after stage s
\* faulty variant: local_documents is skipped
NextStageSkipping(s) == IF s = 1 THEN 3 ELSE s + 1

NextStage(s) == s + 1

\* the stage function returned: _execute_with_retry returns its result (the
\* locals of both end here), process_research keeps it and announces the
\* next stage
StageReturn ==
    /\ Ready("return")
    /\ stage <= 4
    /\ stage' = NextStage(stage)
    /\ cases' = IF stage = 3 THEN retval ELSE cases
    /\ report' = IF stage = 4 THEN retval ELSE report
    /\ order' = Append(order, [stage |-> stage, end |-> "return"])
    /\ Goto("enter_stage", <<Ev(StageNames[NextStage(stage)], "active", 0, "announce")>>, "orch")
    /\ trace' = <<>>
    /\ attempt' = 0
    /\ last_exception' = "none"
    /\ ndocs' = 0
    /\ doc_idx' = 0
    /\ retval' = <<>>
    /\ UNCHANGED <<result, links, link_idx, verified_links, broken_links, stored, nsends,
                   chanVars>>

\* `raise last_exception` after the loop, caught by process_research
Exhausted ==
    /\ Ready("exhausted")
    /\ OrchCatch(last_exception)
    /\ order' = Append(order, [stage |-> stage, end |-> "abort"])
    /\ trace' = Append(trace, Entry("reraise", last_exception))
    /\ UNCHANGED <<stage, ndocs, doc_idx, cases, report, links, link_idx, verified_links,
                   broken_links, stored, retval, nsends, chanVars>>

\* -------------------------------------------------------- link verification

\* outcomes of the check of one link: -1 when the URL is internal and no
\* request is made, else the status of the HEAD request (0: it raised)
ProbeOutcomes(link) == IF IsInternal(link.url) THEN {-1} ELSE {200, 404, 0}

\* faulty variant: only server errors count as broken
WorkingBelow500(outcome) == outcome = -1 \/ (outcome # 0 /\ outcome < 500)

\* response.status_code < 400 (an internal link counts as working)
Working(outcome) == outcome = -1 \/ (outcome # 0 /\ outcome < 400)

\* verify_report_links up to its loop: it is called directly by
\* process_research, not through _execute_with_retry
VerifyStart ==
    /\ Ready("enter_stage")
    /\ stage = 5
    /\ links' = FindLinks(report)
    /\ link_idx' = 1
    /\ verified_links' = <<>>
    /\ broken_links' = <<>>
    /\ retval' = report
    /\ Goto(IF FindLinks(report) = <<>> THEN "return" ELSE "probe", <<>>, "verify")
    /\ trace' = Append(trace, Entry("invoke", 1))
    /\ UNCHANGED <<stage, attempt, last_exception, result, ndocs, doc_idx, cases, report,
                   stored, nsends, order, chanVars>>

\* faulty variant: a request that raised is made again
NextLinkRetrying(i, outcome) == IF outcome = 0 THEN i ELSE i + 1

\* `for i, (text, url) in enumerate(links)`: one turn per link found,
\* whatever the check of the link gave
NextLink(i, outcome) == i + 1

\* one turn of the probe loop; after the last link the text is rewritten
VerifyLink ==
    /\ Ready("probe")
    /\ \E outcome \in ProbeOutcomes(links[link_idx]) :
        LET link == links[link_idx]
            ver == IF Working(outcome) THEN Append(verified_links, link) ELSE verified_links
            bro == IF Working(outcome) THEN broken_links ELSE Append(broken_links, link)
        IN  /\ verified_links' = ver
            /\ broken_links' = bro
            /\ trace' = IF outcome = -1 THEN trace ELSE Append(trace, Entry("probe", [url |-> link.url, status |-> outcome]))
            /\ link_idx' = NextLink(link_idx, outcome)
            /\ IF NextLink(link_idx, outcome) > Len(links)
               THEN /\ retval' = VerifyFinish(report, ver, bro)
                    /\ Goto("return", <<>>, "verify")
               ELSE /\ retval' = retval
                    /\ Goto("probe", <<>>, "verify")
    /\ UNCHANGED <<stage, attempt, last_exception, result, ndocs, doc_idx, cases, report, links,
                   stored, nsends, order, chanVars>>

\* faulty variant: the draft of stage 4 is returned, not the verified text
SuccessResultDraft(final_report) ==
    [success |-> TRUE, report |-> report, stages_completed |-> 5]

\* the dictionary process_research returns after stage 5
SuccessResult(final_report) ==
    [success |-> TRUE, report |-> final_report, stages_completed |-> 5]

\* verify_report_links returned: process_research returns the success result
VerifyReturn ==
    /\ Ready("return")
    /\ stage = 5
    /\ result' = SuccessResult(retval)
    /\ order' = Append(order, [stage |-> stage, end |-> "return"])
    /\ Goto("returned", <<>>, "bg")
    /\ trace' = Append(trace, Entry("return", retval))
    /\ UNCHANGED <<stage, attempt, last_exception, ndocs, doc_idx, cases, report, links, link_idx,
                   verified_links, broken_links, stored, retval, nsends, chanVars>>

\* ------------------------------------------- process_research_background

\* ReportService.create_report: the row is stored, or the database raises;
\* not called for a failure result
DbOutcomes(res) == IF res.success THEN {"stored", "db error"} ELSE {"skipped"}

\* process_research returned: store the report and send the completion
Background ==
    /\ Ready("returned")
    /\ \E db \in DbOutcomes(result) :
        /\ stored' = IF db = "stored" THEN Append(stored, CleanReportContent(result.report)) ELSE stored
        /\ CASE db = "stored" -> Goto("finish", <<CompletionOk(Len(stored) + 1)>>, "bg")
             [] db = "db error" -> Goto("finish", <<CompletionCritical(db)>>, "bg_except")
             [] OTHER -> Goto("finish", <<CompletionFail(result.error)>>, "bg")
    /\ UNCHANGED <<stage, attempt, last_exception, result, ndocs, doc_idx, cases, report, links,
                   link_idx, verified_links, broken_links, retval, nsends, order, trace, chanVars>>

\* the task ends
Finish ==
    /\ Ready("finish")
    /\ Goto("done", <<>>, "none")
    /\ UNCHANGED <<stage, attempt, last_exception, result, dataVars, trace, chanVars>>

\* ------------------------------------------------------ sends of the run

\* the run calls send_message with the next pending message; the call ends
\* at once when no live websocket is registered
RunSendBegin ==
    /\ pending # <<>>
    /\ ~("r1" \in DOMAIN sends /\ sends["r1"].st = "pending")
    /\ SendBegin("r1", Head(pending), FALSE)
    /\ pending' = IF SendSuspends("r1") THEN pending ELSE Tail(pending)
    /\ trace' = Append(trace, Entry("send", Head(pending)))
    /\ UNCHANGED <<pc, ctx, stage, attempt, last_exception, result, dataVars>>

\* send_text returns or raises and send_message ends
RunSendEnd ==
    /\ \E ok \in BOOLEAN :
        /\ SendEnd("r1", ok, FALSE)
        /\ IF SendTextGuarded(ok) = "raised"
           THEN SendRaised
           ELSE /\ pending' = Tail(pending)
                /\ UNCHANGED <<pc, ctx, attempt, last_exception, result>>
    /\ UNCHANGED <<stage, dataVars, trace>>

\* --------------------------------------------------------- the observer

\* the observer of run r1 opens a websocket
ObserverConnect == \E c \in Conns : WsConnect(c, "r1") /\ UNCHANGED runVars

\* the observer's websocket closes
ObserverClose == \E c \in Conns : ClientClose(c) /\ UNCHANGED runVars

\* the websocket task of a closed connection handles WebSocketDisconnect
ObserverGone == \E c \in Conns : WsDisconnect(c) /\ UNCHANGED runVars

\* ------------------------------------------------------- specification

RunInit ==
    /\ pc = "idle"
    /\ pending = <<>>
    /\ ctx = "none"
    /\ stage = 0
    /\ attempt = 0
    /\ last_exception = "none"
    /\ ndocs = 0
    /\ doc_idx = 0
    /\ cases = <<>>
    /\ report = <<>>
    /\ links = <<>>
    /\ link_idx = 1
    /\ verified_links = <<>>
    /\ broken_links = <<>>
    /\ result = [success |-> FALSE, error |-> "none", error_details |-> "none"]
    /\ stored = <<>>
    /\ retval = <<>>
    /\ nsends = 0
    /\ order = <<>>
    /\ trace = <<>>

Init == ChanInit /\ RunInit

Next ==
    \/ StartRun
    \/ ExecStart
    \/ ExecAttempt
    \/ Backoff
    \/ ListDir
    \/ ReadPdf
    \/ GenCall
    \/ StageRaise
    \/ StageReturn
    \/ Exhausted
    \/ VerifyStart
    \/ VerifyLink
    \/ VerifyReturn
    \/ Background
    \/ Finish
    \/ RunSendBegin
    \/ RunSendEnd
    \/ ObserverConnect
    \/ ObserverClose
    \/ ObserverGone

Spec == Init /\ [][Next]_vars

\* ------------------------------------ the channel under arbitrary senders

\* payloads the senders of SpecChan pass to send_message
Msgs == {Ev("data_collection", "active", 10, "prepare"), CompletionFail("API Error: 500")}

\* an observer of any run opens a websocket
ChanConnect == \E c \in Conns, r \in RunIds : WsConnect(c, r) /\ UNCHANGED runVars

\* the run task of r calls send_message
ChanSendBegin ==
    \E r \in RunIds, m \in Msgs :
        /\ nsends < MaxSends
        /\ ~(r \in DOMAIN sends /\ sends[r].st = "pending")
        /\ SendBegin(r, m, TRUE)
        /\ nsends' = nsends + 1
        /\ UNCHANGED <<pc, pending, ctx, stage, attempt, last_exception, ndocs, doc_idx, cases,
                       report, links, link_idx, verified_links, broken_links, result, stored,
                       retval, order, trace>>

\* send_text of a pending call returns or raises
ChanSendEnd == \E r \in RunIds, ok \in BOOLEAN : SendEnd(r, ok, TRUE) /\ UNCHANGED runVars

NextChan ==
    \/ ChanConnect
    \/ ObserverClose
    \/ ObserverGone
    \/ ChanSendBegin
    \/ ChanSendEnd

SpecChan == Init /\ [][NextChan]_vars

\* ------------------------------------------- the link verifier on its own

\* pieces of report text: links with the same anchor and different URLs, two
\* internal-asset links, a bracketed word, a parenthesised URL, two
\* paragraphs one blank line apart, three blank lines
Segments == {
    LinkSyntax(<<"a">>, <<"u1">>),
    LinkSyntax(<<"a">>, <<"u2">>),
    LinkSyntax(<<"a">>, <<InternalPrefix, "x.pdf">>),
    LinkSyntax(<<"a">>, <<InternalPrefix, "y.pdf">>),
    <<"[", "b", "]">>,
    <<"(", "u2", ")">>,
    <<"A", "\n", "\n", "B">>,
    <<"\n", "\n", "\n", "\n">>
}

RECURSIVE Concat(_)
Concat(ss) == IF ss = <<>> THEN <<>> ELSE Head(ss) \o Concat(Tail(ss))

\* the texts of at most MaxSegs segments
Texts == {Concat(ss) : ss \in UNION {[1..k -> Segments] : k \in 0..MaxSegs}}

\* verify_report_links is about to be called with a text
LinksInit ==
    /\ ChanInit
    /\ pc = "enter_stage"
    /\ pending = <<>>
    /\ ctx = "orch"
    /\ stage = 5
    /\ attempt = 0
    /\ last_exception = "none"
    /\ ndocs = 0
    /\ doc_idx = 0
    /\ cases = <<>>
    /\ report \in Texts
    /\ links = <<>>
    /\ link_idx = 1
    /\ verified_links = <<>>
    /\ broken_links = <<>>
    /\ result = [success |-> FALSE, error |-> "none", error_details |-> "none"]
    /\ stored = <<>>
    /\ retval = <<>>
    /\ nsends = 0
    /\ order = [i \in 1..4 |-> [stage |-> i, end |-> "return"]]
    /\ trace = <<>>

\* the number of verify_report_links calls started
Pass == Cardinality({i \in 1..Len(trace) : trace[i].kind = "invoke"})

\* every URL probed so far answered the same way each time
FixedNet ==
    \A i, j \in {k \in 1..Len(trace) : trace[k].kind = "probe"} :
        trace[i].msg.url = trace[j].msg.url => trace[i].msg.status = trace[j].msg.status

\* a probe of the first call
FirstProbe == Pass = 1 /\ VerifyLink

\* a probe of the second call: every URL answers as it did before
SecondProbe == Pass = 2 /\ VerifyLink /\ FixedNet'

\* verify_report_links is called again, with the text it returned
VerifyAgain ==
    /\ Ready("returned")
    /\ Pass = 1
    /\ FixedNet
    /\ report' = result.report
    /\ Goto("enter_stage", <<>>, "orch")
    /\ UNCHANGED <<stage, attempt, last_exception, result, ndocs, doc_idx, cases, links, link_idx,
                   verified_links, broken_links, stored, retval, nsends, order, trace, chanVars>>

NextLinks ==
    \/ VerifyStart
    \/ FirstProbe
    \/ SecondProbe
    \/ VerifyReturn
    \/ VerifyAgain

SpecLinks == LinksInit /\ [][NextLinks]_vars

\* ------------------------------------------------------------- extractors
\* The texts are sequences of atoms. The labels the code looks for in
\* Cyrillic are written in Latin letters: "Case 1" for the case heading
\* (line 973), "Company:", "Country:", "Sources:" for the labels of lines
\* 982-990; "Company:", "Country:", "URL:" are also among the keywords of
\* extract_companies_from_text (lines 923-929). "{}" is a JSON object
\* without source_file, "{sf}" one with source_file, "{sf,dl}" one with
\* source_file and a download_link of its own, "1" a JSON number. A digit
\* after a case heading continues its number: <<"Case 1", "0">> is the
\* heading of case 10.

\* str.split('\n')
RECURSIVE SplitLines(_)
SplitLines(s) ==
    LET n == IndexFrom(s, "\n", 1)
    IN  IF n = 0 THEN <<s>>
        ELSE <<SubSeq(s, 1, n - 1)>> \o SplitLines(SubSeq(s, n + 1, Len(s)))

\* str.lower() of one atom
Lower(a) ==
    CASE a = "Company:" -> "company:"
      [] a = "Country:" -> "country:"
      [] a = "Sources:" -> "sources:"
      [] a = "URL:" -> "url:"
      [] a = "Case 1" -> "case 1"
      [] a = "Case 2" -> "case 2"
      [] OTHER -> a

\* any(keyword in line.lower() for keyword in keywords)
AnyKeyword(line, keywords) == \E i \in 1..Len(line) : Lower(line[i]) \in keywords

\* ':' in line
HasColon(line) == \E i \in 1..Len(line) : Lower(line[i]) \in {"company:", "country:", "sources:", "url:"}

\* line.split(':', 1)[1].strip() if ':' in line else line
LabelValue(line) ==
    IF HasColon(line)
    THEN LET i == CHOOSE k \in 1..Len(line) :
                      /\ HasColon(<<line[k]>>)
                      /\ \A j \in 1..(k - 1) : ~HasColon(<<line[j]>>)
         IN  Strip(SubSeq(line, i + 1, Len(line)))
    ELSE line

\* line.startswith(prefix)
StartsWith(line, prefix) == StartsAt(line, 1, prefix)

\* line.replace('**', '').replace('*', '')
DropStars(line) == SelectSeq(line, LAMBDA a : a \notin {"**", "*"})

\* the empty dict
EmptyDict == [k \in {} |-> 0]

\* faulty variant: the lines of a record are taken with no record open
OpenAlways(rec) == TRUE

\* `if current_case:` / `if current_company:`: a record is open
Open(rec) == rec # EmptyDict

\* faulty variant: the key is taken to be there always
NotInNever(key, dict) == FALSE

\* key not in dict
NotIn(key, dict) == key \notin DOMAIN dict

\* f'Кейс {case_number}'
CaseLabel(n) == IF n = 1 THEN "Case 1" ELSE IF n = 2 THEN "Case 2" ELSE "Case n"

\* extract_cases_from_text, lines 967-1000: one turn of the loop; st.raised
\* is set where a statement raises (a KeyError on a key that is not there)
CasesLine(line, st) ==
    LET cur == st.current
        n == st.case_number
    IN  IF line = <<>> THEN st
        ELSE IF StartsWith(line, <<"**", CaseLabel(n)>>) \/ StartsWith(line, <<CaseLabel(n)>>)
        THEN [st EXCEPT !.found = IF Open(cur) THEN Append(@, cur) ELSE @,
                        !.current = PutKey(PutKey(EmptyDict, "number", n), "title", Strip(DropStars(line))),
                        !.case_number = n + 1]
        ELSE IF StartsWith(line, <<"**", "Company:">>) \/ StartsWith(line, <<"Company:">>)
        THEN IF Open(cur) THEN [st EXCEPT !.current = PutKey(cur, "company", LabelValue(line))] ELSE st
        ELSE IF StartsWith(line, <<"**", "Country:">>) \/ StartsWith(line, <<"Country:">>)
        THEN IF Open(cur) THEN [st EXCEPT !.current = PutKey(cur, "country", LabelValue(line))] ELSE st
        ELSE IF StartsWith(line, <<"**", "Sources:">>) \/ StartsWith(line, <<"Sources:">>)
        THEN IF Open(cur) THEN [st EXCEPT !.current = PutKey(cur, "sources", <<>>)] ELSE st
        ELSE IF StartsWith(line, <<"http">>)
        THEN IF Open(cur)
             THEN LET c1 == IF NotIn("sources", cur) THEN PutKey(cur, "sources", <<>>) ELSE cur
                  IN  IF "sources" \in DOMAIN c1
                      THEN [st EXCEPT !.current = PutKey(c1, "sources", Append(c1["sources"], line))]
                      ELSE [st EXCEPT !.raised = TRUE]
             ELSE st
        ELSE IF Open(cur) /\ line # <<>> /\ ~StartsWith(line, <<"**">>)
        THEN IF NotIn("description", cur)
             THEN [st EXCEPT !.current = PutKey(cur, "description", line)]
             ELSE IF "description" \in DOMAIN cur
                  THEN [st EXCEPT !.current = PutKey(cur, "description", cur["description"] \o <<" ">> \o line)]
                  ELSE [st EXCEPT !.raised = TRUE]
        ELSE st

\* extract_companies_from_text, lines 914-937: one turn of the loop
CompaniesLine(line, st) ==
    LET cur == st.current
    IN  IF line = <<>>
        THEN IF Open(cur) THEN [st EXCEPT !.found = Append(@, cur), !.current = EmptyDict] ELSE st
        ELSE IF AnyKeyword(line, {"company:", "name:"})
        THEN [st EXCEPT !.found = IF Open(cur) THEN Append(@, cur) ELSE @,
                        !.current = PutKey(EmptyDict, "name", LabelValue(line))]
        ELSE IF AnyKeyword(line, {"website:", "url:"})
        THEN IF Open(cur) THEN [st EXCEPT !.current = PutKey(cur, "website", LabelValue(line))] ELSE st
        ELSE IF AnyKeyword(line, {"country:"})
        THEN IF Open(cur) THEN [st EXCEPT !.current = PutKey(cur, "country", LabelValue(line))] ELSE st
        ELSE IF StartsWith(line, <<"http">>)
        THEN IF Open(cur)
             THEN LET c1 == IF NotIn("links", cur) THEN PutKey(cur, "links", <<>>) ELSE cur
                  IN  IF "links" \in DOMAIN c1
                      THEN [st EXCEPT !.current = PutKey(c1, "links", Append(c1["links"], line))]
                      ELSE [st EXCEPT !.raised = TRUE]
             ELSE st
        ELSE st

\* the for loop of both extractors; an exception ends it
RECURSIVE CasesLoop(_, _)
CasesLoop(lines, st) ==
    IF lines = <<>> \/ st.raised THEN st
    ELSE CasesLoop(Tail(lines), CasesLine(Strip(Head(lines)), st))

RECURSIVE CompaniesLoop(_, _)
CompaniesLoop(lines, st) ==
    IF lines = <<>> \/ st.raised THEN st
    ELSE CompaniesLoop(Tail(lines), CompaniesLine(Strip(Head(lines)), st))

\* faulty variant: the open entry is left out
ReturnedNoFlush(st) == [raised |-> st.raised, value |-> st.found]

\* the last statements of both extractors: the open entry is appended and
\* the list returned
Returned(st) ==
    [raised |-> st.raised,
     value  |-> IF st.raised THEN <<>>
                ELSE IF st.current # EmptyDict THEN Append(st.found, st.current) ELSE st.found]

extract_cases_from_text(text) ==
    Returned(CasesLoop(SplitLines(text),
                       [found |-> <<>>, current |-> EmptyDict, case_number |-> 1, raised |-> FALSE]))

extract_companies_from_text(text) ==
    Returned(CompaniesLoop(SplitLines(text),
                           [found |-> <<>>, current |-> EmptyDict, case_number |-> 1, raised |-> FALSE]))

\* re.search(r"\[.*\]", content_str, re.DOTALL): from the first "[" to the
\* last "]" after it; the whole text when there is no such pair
JsonPart(content_str) ==
    LET i == IndexFrom(content_str, "[", 1)
        closing == {j \in 1..Len(content_str) : content_str[j] = "]" /\ j > i}
    IN  IF i = 0 \/ closing = {} THEN content_str
        ELSE SubSeq(content_str, i, SetMax(closing))

JsonError == [ok |-> FALSE, val |-> [t |-> "none"], next |-> 0]

RECURSIVE SkipWs(_, _)
SkipWs(s, i) == IF i <= Len(s) /\ IsSpace(s[i]) THEN SkipWs(s, i + 1) ELSE i

\* the JSON decoder: one value from position i
RECURSIVE ParseValue(_, _)
RECURSIVE ParseElems(_, _, _)
ParseValue(s, i) ==
    LET j == SkipWs(s, i)
    IN  IF j > Len(s) THEN JsonError
        ELSE IF s[j] = "{}"
        THEN [ok |-> TRUE, val |-> [t |-> "dict", source_file |-> "None", download_link |-> "None"], next |-> j + 1]
        ELSE IF s[j] = "{sf}"
        THEN [ok |-> TRUE, val |-> [t |-> "dict", source_file |-> "f.pdf", download_link |-> "None"], next |-> j + 1]
        ELSE IF s[j] = "{sf,dl}"
        THEN [ok |-> TRUE, val |-> [t |-> "dict", source_file |-> "f.pdf", download_link |-> <<"u1">>], next |-> j + 1]
        ELSE IF s[j] = "1" THEN [ok |-> TRUE, val |-> [t |-> "int"], next |-> j + 1]
        ELSE IF s[j] = "["
        THEN LET k == SkipWs(s, j + 1)
             IN  IF k <= Len(s) /\ s[k] = "]"
                 THEN [ok |-> TRUE, val |-> [t |-> "list", items |-> <<>>], next |-> k + 1]
                 ELSE ParseElems(s, k, <<>>)
        ELSE JsonError

ParseElems(s, i, acc) ==
    LET v == ParseValue(s, i)
    IN  IF ~v.ok THEN JsonError
        ELSE LET k == SkipWs(s, v.next)
             IN  IF k > Len(s) THEN JsonError
                 ELSE IF s[k] = "," THEN ParseElems(s, k + 1, Append(acc, v.val))
                 ELSE IF s[k] = "]"
                 THEN [ok |-> TRUE, val |-> [t |-> "list", items |-> Append(acc, v.val)], next |-> k + 1]
                 ELSE JsonError

\* json.loads: one value and nothing but whitespace after it, else
\* JSONDecodeError
Loads(json_str) ==
    LET v == ParseValue(json_str, 1)
    IN  IF v.ok /\ SkipWs(json_str, v.next) > Len(json_str) THEN v ELSE JsonError

\* faulty variant: a download_link of the object is taken over
RECURSIVE NormalizeTrusting(_)
NormalizeTrusting(items) ==
    IF items = <<>> THEN <<>>
    ELSE LET item == Head(items)
         IN  IF item.t # "dict" THEN NormalizeTrusting(Tail(items))
             ELSE LET source_file == IF item.source_file # "None" THEN item.source_file ELSE "unknown.pdf"
                  IN  <<[source_file |-> source_file,
                         download_link |-> IF item.download_link # "None" THEN item.download_link
                                           ELSE <<InternalPrefix, source_file>>,
                         section |-> <<>>, fact |-> <<>>, metrics |-> "None", date |-> "None",
                         links |-> <<>>]>> \o NormalizeTrusting(Tail(items))

\* parse_local_insights, lines 840-854: the objects of the array, normalised
RECURSIVE Normalize(_)
Normalize(items) ==
    IF items = <<>> THEN <<>>
    ELSE LET item == Head(items)
         IN  IF item.t # "dict" THEN Normalize(Tail(items))
             ELSE LET source_file == IF item.source_file # "None" THEN item.source_file ELSE "unknown.pdf"
                  IN  <<[source_file |-> source_file,
                         download_link |-> <<InternalPrefix, source_file>>,
                         section |-> <<>>, fact |-> <<>>, metrics |-> "None", date |-> "None",
                         links |-> <<>>]>> \o Normalize(Tail(items))

\* line.strip(" -•*")
RECURSIVE StripBullet(_)
StripBullet(line) ==
    IF line # <<>> /\ line[1] \in {" ", "-", "*", "**"} THEN StripBullet(Tail(line))
    ELSE IF line # <<>> /\ line[Len(line)] \in {" ", "-", "*", "**"}
    THEN StripBullet(SubSeq(line, 1, Len(line) - 1))
    ELSE line

\* parse_local_insights, lines 858-873: one insight per line that is not empty
RECURSIVE Fallback(_)
Fallback(lines) ==
    IF lines = <<>> THEN <<>>
    ELSE LET line == StripBullet(Head(lines))
         IN  IF line = <<>> THEN Fallback(Tail(lines))
             ELSE <<[source_file |-> "unknown.pdf",
                     download_link |-> <<InternalPrefix, "unknown.pdf">>,
                     section |-> <<>>, fact |-> line, metrics |-> "None", date |-> "None",
                     links |-> <<>>]>> \o Fallback(Tail(lines))

\* parse_local_insights: the list of the JSON array when the text holds one,
\* the fallback when json.loads raises (except Exception: pass) or the value
\* is not a list
parse_local_insights(content) ==
    LET content_str == Strip(content)
        data == Loads(JsonPart(content_str))
    IN  [raised |-> FALSE,
         value  |-> IF data.ok /\ data.val.t = "list" THEN Normalize(data.val.items)
                    ELSE Fallback(SplitLines(content_str))]

\* lines of model replies: blank, case heading, labels with and without a
\* value, links, a bullet, a JSON array with an element that is no object, a
\* JSON array after a word, a JSON object, a broken array
ExtractLines == {
    <<>>,
    <<"**", "Case 1", " ", "x">>,
    <<"Case 2">>,
    <<"Case 1", "0">>,
    <<"Company:", " ", "x">>,
    <<"Country:">>,
    <<"Sources:">>,
    <<"http", "x">>,
    <<" ", "-", " ", "x">>,
    <<"URL:", "http">>,
    <<"[", "{sf}", ",", "1", "]">>,
    <<"x", "[", "{sf,dl}", "]">>,
    <<"{}">>,
    <<"[", "{}", ",">> }

\* "\n".join(lines)
RECURSIVE Join(_)
Join(lines) ==
    IF lines = <<>> THEN <<>>
    ELSE IF Len(lines) = 1 THEN lines[1]
    ELSE lines[1] \o <<"\n">> \o Join(Tail(lines))

ExtractTexts == {Join(ls) : ls \in UNION {[1..k -> ExtractLines] : k \in 0..MaxLines}}

ExtractInit ==
    /\ ChanInit
    /\ pc = "extract"
    /\ pending = <<>>
    /\ ctx = "orch"
    /\ stage = 1
    /\ attempt = 0
    /\ last_exception = "none"
    /\ ndocs = 0
    /\ doc_idx = 0
    /\ cases = <<>>
    /\ report \in ExtractTexts
    /\ links = <<>>
    /\ link_idx = 1
    /\ verified_links = <<>>
    /\ broken_links = <<>>
    /\ result = [success |-> FALSE, error |-> "none", error_details |-> "none"]
    /\ stored = <<>>
    /\ retval = [raised |-> FALSE, value |-> <<>>]
    /\ nsends = 0
    /\ order = [i \in 1..4 |-> [stage |-> i, end |-> "return"]]
    /\ trace = <<>>

\* one extractor is applied to the text
Extracts(name, value) ==
    /\ pc = "extract"
    /\ pc' = name
    /\ retval' = value
    /\ UNCHANGED <<pending, ctx, stage, attempt, last_exception, ndocs, doc_idx, cases, report,
                   links, link_idx, verified_links, broken_links, result, stored, nsends, order,
                   trace, chanVars>>

ExtractCases == Extracts("extract_cases_from_text", extract_cases_from_text(report))

ExtractCompanies == Extracts("extract_companies_from_text", extract_companies_from_text(report))

ParseInsights == Extracts("parse_local_insights", parse_local_insights(report))

NextExtract == ExtractCases \/ ExtractCompanies \/ ParseInsights

SpecExtract == ExtractInit /\ [][NextExtract]_vars

\* ---------------------------------------------------- clean_report_content

\* the atoms of the texts given to clean_report_content
CleanAtoms == {"*", ":", " ", "\n", "a"}

\* the texts of at most MaxChars atoms
CleanTexts == UNION {[1..k -> CleanAtoms] : k \in 0..MaxChars}

\* clean_report_content is about to be called with a text
CleanInit ==
    /\ ChanInit
    /\ pc = "clean"
    /\ pending = <<>>
    /\ ctx = "func"
    /\ stage = 4
    /\ attempt = 0
    /\ last_exception = "none"
    /\ ndocs = 0
    /\ doc_idx = 0
    /\ cases = <<>>
    /\ report \in CleanTexts
    /\ links = <<>>
    /\ link_idx = 1
    /\ verified_links = <<>>
    /\ broken_links = <<>>
    /\ result = [success |-> FALSE, error |-> "none", error_details |-> "none"]
    /\ stored = <<>>
    /\ retval = <<>>
    /\ nsends = 0
    /\ order = <<>>
    /\ trace = <<>>

\* final_report = self.clean_report_content(enhanced_report)
Clean ==
    /\ pc = "clean"
    /\ pc' = "cleaned"
    /\ retval' = CleanReportContent(report)
    /\ UNCHANGED <<pending, ctx, stage, attempt, last_exception, ndocs, doc_idx, cases, report,
                   links, link_idx, verified_links, broken_links, result, stored, nsends, order,
                   trace, chanVars>>

NextClean == Clean

SpecClean == CleanInit /\ [][NextClean]_vars

\* ------------------------------------------------------------- fairness

\* the run task can take a turn of the probe loop (the guard of VerifyLink)
ProbeStep == Ready("probe") /\ link_idx \in 1..Len(links)

\* the steps of the run task other than a turn of the probe loop
RunNext ==
    \/ StartRun \/ ExecStart \/ ExecAttempt \/ Backoff \/ ListDir \/ ReadPdf \/ GenCall
    \/ StageRaise \/ StageReturn \/ Exhausted \/ VerifyStart \/ VerifyReturn
    \/ Background \/ Finish \/ RunSendBegin \/ RunSendEnd

\* weak fairness of VerifyLink, written out: the action is enabled exactly
\* when ProbeStep holds, and every step of it changes link_idx
ProbeFair == []<>(~ProbeStep) \/ []<><<VerifyLink>>_vars

\* the observer with one websocket: it connects, closes and is torn down at
\* any moment, or never
LiveObserver ==
    /\ WsConnect(1, "r1") \/ ClientClose(1) \/ WsDisconnect(1)
    /\ UNCHANGED runVars

NextLive == RunNext \/ VerifyLink \/ LiveObserver

\* the event loop runs the task whenever it can take a step, and every
\* awaited call (client.post with its timeout, requests.head with its
\* timeout, asyncio.sleep, send_text) returns or raises; the observer is
\* under no obligation
SpecLive == Init /\ [][NextLive]_vars /\ WF_vars(RunNext) /\ ProbeFair

\* ------------------------------------------------------ reading the trace

\* positions of the entries of one kind
At(kind) == {i \in 1..Len(trace) : trace[i].kind = kind}

N(kind) == Cardinality(At(kind))

\* total of the asyncio.sleep backoffs of the current _execute_with_retry
RECURSIVE SleptUpTo(_)
SleptUpTo(i) ==
    IF i = 0 THEN 0
    ELSE SleptUpTo(i - 1) + (IF trace[i].kind = "sleep" THEN trace[i].msg ELSE 0)

Slept == SleptUpTo(Len(trace))

\* the latest message passed to send_message by the run
LastSend == trace[SetMax(At("send"))].msg

\* generation-service calls of the current stage whose response makes the
\* stage function raise
RaisingCalls == {i \in At("call") : AfterCall(stage, trace[i].msg.status) = "raise"}

\* the values the stage function can return for the latest response
LastCallResults ==
    LET resp == trace[SetMax(At("call"))].msg
    IN  IF stage = 4
        THEN {CleanReportContent(e) : e \in EnhanceReplies(resp.body, cases)}
        ELSE IF stage = 2 /\ resp.status = 500 THEN {<<"empty">>}
        ELSE {StageResult(stage, resp)}

\* the events of the except clauses of _execute_with_retry, one per failed attempt
IsHandlerEvent(m) ==
    /\ m.type = "stage_update"
    /\ m.message \in {"timeout_retry_in", "error_retry_in", "timeout_after", "error_after"}

HandlerEvents == {i \in At("send") : IsHandlerEvent(trace[i].msg)}

Aborted == order # <<>> /\ order[Len(order)].end = "abort"

AllReturned == Len(order) = 5 /\ \A i \in 1..5 : order[i] = [stage |-> i, end |-> "return"]

\* ------------------------------------------------------------------ claims

\* C1 (retry law): when a stage function has failed on its first two
\* invocations and returned on the third, _execute_with_retry has invoked it
\* exactly 3 times, what it returns is the result of that third invocation,
\* and it has slept at least 2^1 + 2^2 = 6 seconds in between.
C1_RetryLaw ==
    (pc = "return" /\ stage <= 4 /\ pending = <<>> /\ N("raise") = 2)
        => /\ N("invoke") = 3
           /\ Slept >= 6
           /\ SetMax(At("invoke")) > SetMax(At("raise"))
           /\ (At("call") # {} /\ SetMax(At("call")) > SetMax(At("invoke")))
                  => retval \in LastCallResults

C1_Witness ==
    /\ pc = "return" /\ stage = 3 /\ pending = <<>>
    /\ N("raise") = 2 /\ N("invoke") = 3
    /\ retval \in CaseLists /\ retval # <<>>

\* C2 (retry exhaustion): a stage function that fails on every invocation is
\* invoked exactly MaxRetries times; the executor then sends an `error`
\* event for that stage and re-raises the exception of the last invocation,
\* which reaches process_research; it never returns a value.
C2_Exhaustion ==
    /\ stage \in 1..4 => N("invoke") <= MaxRetries
    /\ (pc = "return" /\ stage \in 1..4) => N("raise") < N("invoke")
    /\ (pc = "exhausted" /\ pending = <<>>) =>
          /\ N("invoke") = MaxRetries
          /\ N("raise") = MaxRetries
          /\ LastSend.type = "stage_update"
          /\ LastSend.status = "error"
          /\ LastSend.stage = StageNames[stage]
          /\ last_exception = trace[SetMax(At("raise"))].msg
    /\ At("reraise") # {} =>
          /\ N("raise") = MaxRetries
          /\ N("invoke") = MaxRetries
          /\ trace[SetMax(At("reraise"))].msg = trace[SetMax(At("raise"))].msg
          /\ trace[SetMax(At("reraise")) - 1].kind = "send"
          /\ trace[SetMax(At("reraise")) - 1].msg.status = "error"
          /\ trace[SetMax(At("reraise")) - 1].msg.stage = StageNames[stage]
          /\ Aborted
          /\ ~result.success
          /\ result.error = trace[SetMax(At("raise"))].msg

C2_Witness ==
    /\ At("reraise") # {}
    /\ pc = "done"
    /\ N("raise") = MaxRetries
    /\ result.error = "Timeout"

C4_StageOrder ==
    /\ \A i \in 1..Len(order) :
          /\ order[i].stage = i
          /\ i < Len(order) => order[i].end = "return"
    /\ stage >= 1 =>
          /\ Len(order) \in {stage - 1, stage}
          /\ \A i \in 1..(stage - 1) : order[i] = [stage |-> i, end |-> "return"]
    /\ \A i \in 1..Len(trace) :
          /\ trace[i].stage = stage
          /\ (trace[i].kind = "send" /\ trace[i].msg.type = "stage_update")
                => trace[i].msg.stage \in {StageNames[stage], "error"}
          /\ trace[i].kind \in {"call", "listdir", "sleep", "raise"} => stage \in 1..4
          /\ trace[i].kind = "probe" => stage = 5
    /\ \A i \in 1..Len(pending) :
          pending[i].type = "stage_update" => pending[i].stage \in {StageNames[stage], "error"}
    /\ result.success => AllReturned

C4_Witness ==
    /\ pc = "done"
    /\ result.success
    /\ AllReturned
    /\ N("probe") >= 1

\* C5 (abort on terminal stage failure): once a stage has exhausted its
\* retries no later stage starts: nothing is invoked, called or probed after
\* the re-raise, and process_research returns a failure result that carries
\* the error text and no report; nothing is stored.
C5_Abort ==
    Aborted =>
        /\ stage = order[Len(order)].stage
        /\ At("reraise") # {}
        /\ \A i \in 1..Len(trace) :
              i > SetMax(At("reraise")) =>
                  /\ trace[i].kind = "send"
                  /\ trace[i].msg.type = "stage_update" => trace[i].msg.stage = "error"
        /\ ~result.success
        /\ result.error = last_exception
        /\ result.error \in {"Timeout", "API Error: 500"}
        /\ "report" \notin DOMAIN result
        /\ stored = <<>>
        /\ pc \in {"returned", "finish", "done"}

C5_Witness ==
    /\ pc = "done"
    /\ Aborted
    /\ stage = 3
    /\ ~result.success
    /\ LastSend = CompletionFail(result.error)

Completions == {i \in At("send") : trace[i].msg.type = "completion"}

ErrorEvents ==
    {i \in At("send") : trace[i].msg.type = "stage_update" /\ trace[i].msg.status = "error"}

\* C6 as stated (single terminal event): a finished run has sent exactly one
\* completion, as its last message, with success true iff all five stages
\* succeeded, and after a failure that completion is the only message that
\* tells the observer of an error.
C6_AsStated ==
    pc = "done" =>
        /\ Cardinality(Completions) = 1
        /\ Completions = {SetMax(At("send"))}
        /\ LastSend.success <=> AllReturned
        /\ ~LastSend.success => ErrorEvents = {}

\* C6 (single terminal event, amended): completions are sent only by
\* process_research_background after process_research has ended; a finished
\* run has sent exactly one, as its last message; its success flag is true
\* iff all five stages succeeded and the report row was stored; and when a
\* stage failed the completion comes after the `error` stage_update events
\* of the executor (for the failed stage) and of process_research (stage
\* "error").
C6_SingleCompletion ==
    /\ Completions # {} => pc \in {"finish", "done"}
    /\ \A i \in 1..Len(pending) :
          pending[i].type = "completion" => pc = "finish" /\ Len(pending) = 1
    /\ pc = "done" =>
          /\ Cardinality(Completions) = 1
          /\ Completions = {SetMax(At("send"))}
          /\ LastSend.success <=> (AllReturned /\ stored # <<>>)
          /\ Aborted =>
                /\ \E i \in ErrorEvents : trace[i].msg.stage = StageNames[stage]
                /\ \E i \in ErrorEvents : trace[i].msg.stage = "error"
                /\ \A i \in ErrorEvents : i < SetMax(At("send"))
                /\ LastSend = CompletionFail(result.error)

C6_Witness ==
    /\ pc = "done"
    /\ Aborted
    /\ Cardinality(Completions) = 1
    /\ Cardinality(ErrorEvents) >= 2
    /\ ~LastSend.success

IsProbe(e) == e.kind = "probe"

\* the outcomes of the HEAD requests of stage 5, in the order they were made
Probes == SelectSeq(trace, IsProbe)

\* the links of ls that count as working (verdict TRUE) or broken (FALSE),
\* given the outcomes ps of the requests made for the external ones
RECURSIVE Classify(_, _, _)
Classify(ls, ps, verdict) ==
    IF ls = <<>> THEN <<>>
    ELSE IF IsInternal(Head(ls).url)
         THEN (IF verdict THEN <<Head(ls)>> ELSE <<>>) \o Classify(Tail(ls), ps, verdict)
         ELSE (IF Working(Head(ps).msg.status) = verdict THEN <<Head(ls)>> ELSE <<>>)
                  \o Classify(Tail(ls), Tail(ps), verdict)

\* the text stage 5 must hand back for the draft of stage 4 and these probes
VerifiedText ==
    IF FindLinks(report) = <<>> THEN report
    ELSE VerifyFinish(report, Classify(FindLinks(report), Probes, TRUE),
                              Classify(FindLinks(report), Probes, FALSE))

\* C7 as stated (report delivery on success): after a successful run the
\* completion message carries the final report text, the same text as the
\* success result.
C7_AsStated ==
    (pc = "done" /\ result.success) =>
        /\ LastSend.type = "completion"
        /\ "report" \in DOMAIN LastSend
        /\ LastSend.report = result.report

\* C7 (report delivery on success, amended): the success result of
\* process_research carries the text returned by verify_report_links for
\* the draft of stage 4; the completion message that follows a stored
\* report has success = TRUE and the id of the stored row and no report
\* text; the row holds the cleaned text of the result.
C7_ReportDelivery ==
    /\ (result.success /\ pc \in {"returned", "finish", "done"}) =>
          /\ result.report = VerifiedText
          /\ result.stages_completed = 5
    /\ (pc = "done" /\ result.success /\ stored # <<>>) =>
          /\ LastSend = CompletionOk(Len(stored))
          /\ DOMAIN LastSend = {"type", "success", "report_id", "message"}
          /\ stored[Len(stored)] = CleanReportContent(result.report)

C7_Witness ==
    /\ pc = "done"
    /\ result.success
    /\ stored # <<>>
    /\ result.report # report
    /\ Len(Probes) >= 2
    /\ LastSend.type = "completion"

\* a send_message call of sender r is waiting in send_text
Pending(r) == r \in DOMAIN sends /\ sends[r].st = "pending"

\* a websocket that accepts frames is registered under r
LiveRegistered(r) ==
    /\ r \in DOMAIN active_connections
    /\ client_state[active_connections[r]] = "CONNECTED"

\* C8 (progress delivery): a send_message(R, m) that starts while a live
\* websocket C is registered under R goes to C; when send_text accepts the
\* frame, exactly the payload m is put on the wire once, to C and to no
\* other websocket; and nothing is put on the wire except by such a call.
C8_Delivery ==
    [][\A r \in RunIds :
          /\ (~Pending(r) /\ LiveRegistered(r) /\ r \in DOMAIN sends' /\ Pending(r)')
                => /\ sends'[r].conn = active_connections[r]
                   /\ lastDelivery' = <<>>
          /\ (/\ ~Pending(r)
              /\ LiveRegistered(r)
              /\ r \in DOMAIN sends'
              /\ (r \notin DOMAIN sends \/ sends'[r] # sends[r]))
                => Pending(r)'
          /\ (Pending(r) /\ sends'[r].st = "sent")
                => /\ lastDelivery' = <<[conn |-> sends[r].conn, msg |-> sends[r].msg]>>
                   /\ sends'[r].msg = sends[r].msg
                   /\ ws_client[sends[r].conn] = r
                   /\ client_state[sends[r].conn] = "CONNECTED"
          /\ (lastDelivery' # lastDelivery /\ lastDelivery' # <<>>)
                => \E q \in RunIds : Pending(q) /\ sends'[q].st = "sent"
      ]_vars

C8_Witness ==
    /\ "r1" \in DOMAIN sends
    /\ sends["r1"].st = "sent"
    /\ lastDelivery = <<[conn |-> sends["r1"].conn, msg |-> sends["r1"].msg]>>
    /\ LiveRegistered("r2")
    /\ active_connections["r2"] # sends["r1"].conn

\* C9 (send never fails its caller): a send_message call never ends with an
\* exception: it ends delivered, dropped, or with the exception of
\* send_text caught; a call that finds no live websocket registered under
\* its run (none registered, or one that is not connected) ends at once and
\* puts nothing on the wire, and so does a call whose send_text raised.
C9_NeverFails ==
    [][\A r \in RunIds :
          /\ r \in DOMAIN sends' => sends'[r].st \in {"pending", "sent", "dropped", "caught"}
          /\ (/\ ~Pending(r)
              /\ ~LiveRegistered(r)
              /\ r \in DOMAIN sends'
              /\ (r \notin DOMAIN sends \/ sends'[r] # sends[r]))
                => /\ sends'[r].st = "dropped"
                   /\ lastDelivery' = <<>>
                   /\ r \notin DOMAIN active_connections'
          /\ (Pending(r) /\ ~Pending(r)')
                => /\ sends'[r].st \in {"sent", "caught"}
                   /\ sends'[r].st = "caught" => lastDelivery' = <<>>
      ]_vars

C9_Witness ==
    /\ "r1" \in DOMAIN sends /\ sends["r1"].st = "caught"
    /\ "r2" \in DOMAIN sends /\ sends["r2"].st = "dropped"
    /\ lastDelivery = <<>>

\* a step of the run task other than a turn of the probe loop
RunStep ==
    \/ RunSendBegin \/ RunSendEnd
    \/ StartRun \/ ExecStart \/ ExecAttempt \/ Backoff \/ ListDir \/ ReadPdf \/ GenCall
    \/ StageRaise \/ StageReturn \/ Exhausted \/ VerifyStart \/ VerifyReturn
    \/ Background \/ Finish

\* C10 (observer independence): whatever the observer does (never connects,
\* connects, closes, reconnects, at any moment) the run depends on the
\* service responses only: a stage function is invoked once more than the
\* number of responses that made it raise, it fails only by such a response,
\* the result of process_research is the failure with the error of the last
\* such response or the success with the text determined by the draft and
\* the probe outcomes; the task never dies of a send, and until it is done
\* it always has a next step to take.
C10_ObserverIndependence ==
    /\ pc # "crashed"
    /\ last_exception \in {"none", "Timeout", "API Error: 500"}
    /\ stage \in 1..4 =>
          LET raising == Cardinality(RaisingCalls)
              raised == N("raise")
              invoked == N("invoke")
          IN  /\ raised <= raising
              /\ raising <= raised + 1
              /\ invoked <= raising + 1
              /\ N("sleep") = (IF invoked = 0 THEN 0 ELSE invoked - 1)
              /\ pc = "return" => (raised = raising /\ invoked = raising + 1)
              /\ pc = "exhausted" => raising = MaxRetries
    /\ Aborted =>
          /\ Cardinality(RaisingCalls) = MaxRetries
          /\ result = [success |-> FALSE,
                       error |-> CallException(trace[SetMax(RaisingCalls)].msg.status),
                       error_details |-> "traceback"]
    /\ (pc \in {"returned", "finish", "done"} /\ ~Aborted) =>
          /\ AllReturned
          /\ result = SuccessResult(VerifiedText)
    /\ pc # "done" => (ProbeStep \/ ENABLED RunStep)

C10_Witness ==
    /\ pc = "done"
    /\ result.success
    /\ result.report # report
    /\ client_state[1] = "DISCONNECTED"
    /\ client_state[2] = "CONNECTED"
    /\ LiveRegistered("r1")

\* this step is manager.connect of websocket c for run r
Registers(c, r) ==
    /\ client_state[c] = "CONNECTING"
    /\ client_state'[c] = "CONNECTED"
    /\ ws_client'[c] = r

\* C11 (re-registration replaces): manager.connect of C2 for run R leaves R
\* mapped to C2, whatever was registered under R, and touches no other
\* entry; a send_message for R that starts while C2 is the live entry of R
\* waits on C2, and what it puts on the wire goes to C2 only, also while the
\* replaced C1 is still connected.
C11_Reregistration ==
    [][\A r \in RunIds :
          /\ \A c \in Conns :
                Registers(c, r) =>
                    /\ r \in DOMAIN active_connections'
                    /\ active_connections'[r] = c
                    /\ \A q \in RunIds \ {r} :
                          /\ (q \in DOMAIN active_connections') = (q \in DOMAIN active_connections)
                          /\ q \in DOMAIN active_connections
                                => active_connections'[q] = active_connections[q]
          /\ (~Pending(r) /\ LiveRegistered(r) /\ nsends' # nsends /\ r \in DOMAIN sends'
                /\ (r \notin DOMAIN sends \/ sends'[r] # sends[r]))
                => /\ Pending(r)'
                   /\ sends'[r].conn = active_connections[r]
          /\ (Pending(r) /\ ~Pending(r)' /\ lastDelivery' # <<>>)
                => /\ Len(lastDelivery') = 1
                   /\ lastDelivery'[1].conn = sends[r].conn
      ]_vars

\* C2 replaced a still connected C1 under r1 and got the event
C11_Witness ==
    /\ client_state[1] = "CONNECTED" /\ ws_client[1] = "r1"
    /\ client_state[2] = "CONNECTED" /\ ws_client[2] = "r1"
    /\ LiveRegistered("r1") /\ active_connections["r1"] = 2
    /\ "r1" \in DOMAIN sends /\ sends["r1"].st = "sent" /\ sends["r1"].conn = 2
    /\ lastDelivery = <<[conn |-> 2, msg |-> sends["r1"].msg]>>

\* this step is the teardown of websocket d of run r: its task handling
\* WebSocketDisconnect, or a send_text on it raising
TearsDown(d, r) ==
    /\ ws_client[d] = r
    /\ \/ ws_task[d] = "receiving" /\ ws_task'[d] = "ended"
       \/ Pending(r) /\ sends[r].conn = d /\ sends'[r].st = "caught"

\* C12 as stated (registry safe under interleaving): the teardown of an
\* older websocket C1 of run R after a newer C2 was registered under R
\* leaves C2 registered.
C12_AsStated ==
    [][\A r \in RunIds : \A d \in Conns :
          (LiveRegistered(r) /\ active_connections[r] # d /\ TearsDown(d, r))
              => (r \in DOMAIN active_connections' /\ active_connections'[r] = active_connections[r])
      ]_vars

\* this step is the start of a send_message call
SendStarts == nsends' = nsends + 1

\* C13 (self-healing registry): the cleanup at the start of send_message
\* leaves no entry whose websocket is not CONNECTED, so none is there at the
\* lookup; every entry it purged is gone, and a run id gets an entry only by
\* manager.connect.
C13_SelfHealing ==
    [][/\ SendStarts =>
            /\ \A q \in DOMAIN active_connections' :
                  client_state[active_connections'[q]] = "CONNECTED"
            /\ \A q \in DOMAIN active_connections :
                  client_state[active_connections[q]] # "CONNECTED"
                      => q \notin DOMAIN active_connections'
       /\ \A q \in RunIds :
            (q \notin DOMAIN active_connections /\ q \in DOMAIN active_connections')
                => \E c \in Conns : Registers(c, q)
      ]_vars

\* a send for r1 has purged the closed websocket left registered under r2
C13_Witness ==
    /\ nsends >= 1
    /\ "r1" \in DOMAIN sends
    /\ client_state[1] = "DISCONNECTED" /\ ws_client[1] = "r2" /\ ws_task[1] = "receiving"
    /\ "r2" \notin DOMAIN active_connections

\* ------------------------------------------- claims on the link verifier

\* the first call of verify_report_links has returned: `report` is the text
\* it was given, `links` what it found, result.report what it returned
Verified == Pass = 1 /\ pc = "returned"

ProbesOf(url) == {i \in 1..Len(trace) : trace[i].kind = "probe" /\ trace[i].msg.url = url}

\* the number of places where p occurs in s
Occurrences(s, p) == Cardinality({i \in 1..Len(s) : StartsAt(s, i, p)})

\* C14 as stated (surviving-link invariant): every markdown link in the text
\* verify_report_links returns has an internal-asset URL or a URL that was
\* probed in this call with a status below 400.
C14_AsStated ==
    Verified =>
        \A i \in 1..Len(FindLinks(result.report)) :
            LET l == FindLinks(result.report)[i]
            IN  \/ IsInternal(l.url)
                \/ \E k \in ProbesOf(l.url) : trace[k].msg.status \in 1..399

\* C15 as stated (broken-link removal): when every probe of the external URL
\* u of a link [A](u) answered with a status >= 400 or a transport error,
\* the returned text contains neither [A](u) nor u.
C15_AsStated ==
    Verified =>
        \A i \in 1..Len(links) :
            LET l == links[i]
            IN  (/\ ~IsInternal(l.url)
                 /\ ProbesOf(l.url) # {}
                 /\ \A k \in ProbesOf(l.url) : trace[k].msg.status = 0 \/ trace[k].msg.status >= 400)
                => /\ ~Contains(result.report, LinkSyntax(l.text, l.url))
                   /\ ~Contains(result.report, l.url)

\* C15 (broken-link removal): when every probe of the external URL u of a
\* link [A](u) answered with a status >= 400 or a transport error, and u
\* occurs in the text only as the URL of links, the returned text contains
\* neither [A](u) nor u.
C15_BrokenRemoved ==
    Verified =>
        \A i \in 1..Len(links) :
            LET l == links[i]
            IN  (/\ ~IsInternal(l.url)
                 /\ ProbesOf(l.url) # {}
                 /\ \A k \in ProbesOf(l.url) : trace[k].msg.status = 0 \/ trace[k].msg.status >= 400
                 /\ Occurrences(report, l.url)
                        = Cardinality({j \in 1..Len(links) : links[j].url = l.url}))
                => /\ ~Contains(result.report, LinkSyntax(l.text, l.url))
                   /\ ~Contains(result.report, l.url)

\* a 404 link was removed and a working link with the same anchor stayed
C15_Witness ==
    /\ Verified
    /\ report = LinkSyntax(<<"a">>, <<"u1">>) \o <<"A", "\n", "\n", "B">> \o LinkSyntax(<<"a">>, <<"u2">>)
    /\ \E k \in ProbesOf(<<"u1">>) : trace[k].msg.status = 404
    /\ \E k \in ProbesOf(<<"u2">>) : trace[k].msg.status = 200
    /\ result.report = <<"A", "\n", "B">> \o LinkSyntax(<<"a">>, <<"u2">>)

\* C16 as stated (internal-asset links are exempt): without network access
\* (every probe ends in a transport error) no probe is made for a link with
\* an internal-asset URL, and the link is in the returned text as often as
\* in the text given.
C16_AsStated ==
    (Verified /\ \A k \in 1..Len(trace) : trace[k].kind = "probe" => trace[k].msg.status = 0) =>
        \A i \in 1..Len(links) :
            LET l == links[i]
            IN  IsInternal(l.url) =>
                    /\ ProbesOf(l.url) = {}
                    /\ Occurrences(result.report, LinkSyntax(l.text, l.url))
                           >= Occurrences(report, LinkSyntax(l.text, l.url))

\* the text returned by the first call
FirstOutput == trace[CHOOSE i \in 1..Len(trace) : trace[i].kind = "return"].msg

\* C17 as stated (idempotence): a second call on the returned text, with
\* every URL answering as in the first call, returns that text unchanged.
C17_AsStated ==
    (Pass = 2 /\ pc = "returned" /\ FixedNet) => result.report = FirstOutput

\* C18 as stated (working links are left as-is): with every URL answering
\* the same way each time, every link classified as working is in the
\* returned text with its anchor and its URL as often as in the text given,
\* and when no link is broken the text is returned as given.
C18_AsStated ==
    (Verified /\ FixedNet) =>
        /\ \A i \in 1..Len(verified_links) :
              LET l == verified_links[i]
              IN  Occurrences(result.report, LinkSyntax(l.text, l.url))
                      >= Occurrences(report, LinkSyntax(l.text, l.url))
        /\ broken_links = <<>> => result.report = report

\* the longest run of newlines in s
NewlineRun(s) ==
    LET runs == {n \in 0..Len(s) : \E i \in 1..(Len(s) + 1 - n) : \A j \in i..(i + n - 1) : s[j] = "\n"}
    IN  SetMax(runs)

\* C19 as stated (blank-line normalisation after a removal): the returned
\* text has no run of three or more blank lines and no leading blank line,
\* and two paragraphs that were one blank line apart after the removal are
\* still one blank line apart.
C19_AsStated ==
    (Verified /\ broken_links # <<>>) =>
        /\ NewlineRun(result.report) <= 3
        /\ result.report # <<>> => result.report[1] # "\n"
        /\ Contains(RemoveBroken(report, broken_links), <<"A", "\n", "\n", "B">>)
              => Contains(result.report, <<"A", "\n", "\n", "B">>)

\* ------------------------------------------------ claims on the extractors

\* C20 (the extractors are total): whatever the text, each of
\* extract_companies_from_text, extract_cases_from_text and
\* parse_local_insights returns a list and raises nothing.
C20_Total ==
    pc \in {"extract_cases_from_text", "extract_companies_from_text", "parse_local_insights"} =>
        /\ ~retval.raised
        /\ DOMAIN retval.value = 1..Len(retval.value)

\* a link line right after a case heading: the sources list is made on the
\* spot and the case returned
C20_Witness ==
    /\ pc = "extract_cases_from_text"
    /\ report = <<"**", "Case 1", " ", "x", "\n", "http", "x", "\n", "[", "{}", ",">>
    /\ ~retval.raised
    /\ Len(retval.value) = 1
    /\ retval.value[1]["sources"] = << <<"http", "x">> >>

\* the state of the loop of an extractor after the last line of the text
InitialLoop == [found |-> <<>>, current |-> EmptyDict, case_number |-> 1, raised |-> FALSE]

LoopEnd(name, text) ==
    IF name = "extract_cases_from_text" THEN CasesLoop(SplitLines(text), InitialLoop)
    ELSE CompaniesLoop(SplitLines(text), InitialLoop)

LineExtractors == {"extract_cases_from_text", "extract_companies_from_text"}

\* C21 (end-of-text flush): when the text ends while a company or case
\* record is open, that record is the last element of the list returned,
\* with every field it had collected, after the records closed before it.
C21_Flush ==
    pc \in LineExtractors =>
        LET st == LoopEnd(pc, report)
        IN  st.current # EmptyDict =>
                /\ Len(retval.value) = Len(st.found) + 1
                /\ retval.value[Len(retval.value)] = st.current
                /\ SubSeq(retval.value, 1, Len(st.found)) = st.found

\* a company block cut off after the country label: name, website and the
\* empty country are returned
C21_Witness ==
    /\ pc = "extract_companies_from_text"
    /\ report = <<"Company:", " ", "x", "\n", "URL:", "http", "\n", "Country:">>
    /\ retval.value = <<[name |-> <<"x">>, website |-> <<"http">>, country |-> <<>>]>>

\* what an extractor returns for the text
Extracted(name, text) ==
    IF name = "extract_cases_from_text" THEN extract_cases_from_text(text)
    ELSE extract_companies_from_text(text)

\* the lines before line k, as a text
Before(text, k) == Join(SubSeq(SplitLines(text), 1, k - 1))

\* C22 as stated (a blank line closes the current record): in both
\* extractors the records returned for the text up to a blank line are
\* returned unchanged for the whole text; no later line is attached to them.
C22_AsStated ==
    pc \in LineExtractors =>
        \A k \in 1..Len(SplitLines(report)) :
            Strip(SplitLines(report)[k]) = <<>> =>
                LET closed == Extracted(pc, Before(report, k)).value
                IN  /\ Len(closed) <= Len(retval.value)
                    /\ SubSeq(retval.value, 1, Len(closed)) = closed

\* C23 (DocumentInsight invariant): on the JSON path and on the fallback
\* path alike, the download_link of every insight returned is the fixed base
\* path followed by the source_file of that insight; a download_link of the
\* JSON object is not used.
C23_DownloadLink ==
    pc = "parse_local_insights" =>
        \A i \in 1..Len(retval.value) :
            retval.value[i].download_link = <<InternalPrefix, retval.value[i].source_file>>

\* a JSON object that brings a download_link of its own, after a line of
\* prose
C23_Witness ==
    /\ pc = "parse_local_insights"
    /\ report = <<"x", "[", "{sf,dl}", "]">>
    /\ Len(retval.value) = 1
    /\ retval.value[1].source_file = "f.pdf"
    /\ retval.value[1].download_link = <<InternalPrefix, "f.pdf">>

\* C24 as stated (parse ladder): when the text holds a well-formed JSON array
\* at its first "[", with any prose before and after it, the insights are
\* the objects of that array, in order.
C24_AsStated ==
    pc = "parse_local_insights" =>
        LET content_str == Strip(report)
            i == IndexFrom(content_str, "[", 1)
        IN  (i # 0 /\ ParseValue(content_str, i).ok) =>
                retval.value = Normalize(ParseValue(content_str, i).val.items)

\* ------------------------------------------------- claims on whole runs

\* the probes of stage 5 that were answered with a status below 400
GoodProbes == {i \in At("probe") : trace[i].msg.status \in 1..399}

\* the draft of stage 4 holds two external links with different anchors;
\* one probe succeeded and one failed, and the report was stored
OneOfTwo ==
    /\ pc = "done"
    /\ result.success
    /\ stored # <<>>
    /\ Len(FindLinks(report)) = 2
    /\ \A i \in 1..2 : ~IsInternal(FindLinks(report)[i].url)
    /\ Len(Probes) = 2
    /\ Cardinality(GoodProbes) = 1

\* C25 (end-to-end scenario): with a draft that holds one link whose probe
\* succeeds and one whose probe fails, the stored report holds the working
\* link and no other, nothing of the failing one, and the last event sent
\* is the completion with success = TRUE.
C25_EndToEnd ==
    OneOfTwo =>
        LET final == stored[Len(stored)]
            good == CHOOSE i \in 1..2 : Working(Probes[i].msg.status)
            bad == 3 - good
        IN  /\ FindLinks(final) = <<FindLinks(report)[good]>>
            /\ ~Contains(final, FindLinks(report)[bad].url)
            /\ LastSend.type = "completion"
            /\ LastSend.success

\* cases were found, the first link answered 404 and the second 200
C25_Witness ==
    /\ OneOfTwo
    /\ cases # <<>>
    /\ Probes[1].msg.status = 404
    /\ Probes[2].msg.status = 200
    /\ FindLinks(stored[Len(stored)]) = <<[text |-> <<"b">>, url |-> <<"u2">>]>>

\* entries of one kind made by the current invocation of the stage function
InAttempt(kind) == {i \in At(kind) : i > SetMax(At("invoke") \cup {0})}

\* the current invocation of the local_documents function listed the
\* directory with outcome n (-1: os.listdir raised)
Listed(n) == stage = 2 /\ \E i \in InAttempt("listdir") : trace[i].msg = n

NoPdfEvent == Ev(StageNames[2], "completed", 100, "no_pdf")

\* C26 (empty document directory): when the directory is listed and holds no
\* PDF, local_documents makes no generation-service call, returns the empty
\* result, emits the `completed` event, and the next step of the run after
\* its sends is the start of case_analysis.
C26_EmptyDirectory ==
    [][Listed(0) =>
          /\ InAttempt("call") = {}
          /\ pc = "return"
          /\ retval = <<"empty">>
          /\ NoPdfEvent \in {pending[i] : i \in 1..Len(pending)}
                              \cup {trace[i].msg : i \in InAttempt("send")}
          /\ \/ /\ stage' = 2
                /\ pc' = "return"
                /\ retval' = retval
                /\ \A i \in (Len(trace) + 1)..Len(trace') : trace'[i].kind = "send"
             \/ /\ stage' = 3
                /\ pc' = "enter_stage"
                /\ order' = Append(order, [stage |-> 2, end |-> "return"])
                /\ pending' = <<Ev(StageNames[3], "active", 0, "announce")>>]_vars

\* the empty directory was listed at the first attempt and the `completed`
\* event has been sent
C26_Witness ==
    /\ Listed(0)
    /\ attempt = 0
    /\ pending = <<>>
    /\ LastSend = NoPdfEvent
    /\ ~Pending("r1")

\* C27 as stated (missing directory is a hard stage error): when the
\* directory cannot be listed, the local_documents function does not return
\* a result; the attempt fails.
C27_AsStated == Listed(-1) => pc # "return"

\* C28 as stated (non-200 is a retry-eligible failure): in every stage that
\* calls the generation service, an invocation whose request was answered
\* with a status other than 200 does not return a result; it fails.
C28_AsStated ==
    (stage \in 1..4 /\ \E i \in InAttempt("call") : trace[i].msg.status # 200) => pc # "return"

\* C29 as stated (every stage runs through the executor): each of the five
\* stages is entered by starting _execute_with_retry with a fresh retry
\* budget.
C29_AsStated ==
    [][(pc = "enter_stage" /\ pc' # "enter_stage") => (pc' = "attempt" /\ attempt' = 0)]_vars

\* C30 (liveness): every started run reaches its end and has sent its
\* completion event by then.
C30_Liveness == (pc # "idle") ~> (pc = "done" /\ LastSend.type = "completion")

\* the run ended after a stage had used up its retries, with no observer
\* ever connected
C30_Witness ==
    /\ pc = "done"
    /\ Aborted
    /\ LastSend.type = "completion"
    /\ \A c \in Conns : client_state[c] = "CONNECTING"

\* the stage function of one of the four executor stages has returned
Succeeded == pc = "return" /\ stage \in 1..4

\* the events _execute_with_retry itself has sent since the stage was entered
ExecutorEvents ==
    {i \in At("send") : IsHandlerEvent(trace[i].msg) \/ trace[i].msg = RetryAttemptEvent(stage)}

\* C31 (immediate return on success): once the stage function has returned,
\* _execute_with_retry invokes it no more, sleeps no more and sends no event
\* of its own: all that follows are the sends the function still had to
\* make and then the return into process_research, which starts the next
\* stage.  Every sleep and every failure precedes the successful invocation,
\* and a success of the first attempt has no sleep and no executor event.
C31_ImmediateReturn ==
    /\ [](Succeeded =>
            /\ \A i \in At("sleep") \cup At("raise") : i < SetMax(At("invoke"))
            /\ N("invoke") = attempt + 1
            /\ N("invoke") = 1 => (Slept = 0 /\ ExecutorEvents = {}))
    /\ [][Succeeded =>
            \/ /\ Succeeded'
               /\ stage' = stage
               /\ N("invoke")' = N("invoke")
               /\ N("sleep")' = N("sleep")
               /\ ExecutorEvents' = ExecutorEvents
            \/ /\ pc' = "enter_stage"
               /\ stage' = stage + 1
               /\ order' = Append(order, [stage |-> stage, end |-> "return"])]_vars

\* data_collection returned at its first attempt and all its events are sent
C31_Witness ==
    /\ Succeeded
    /\ stage = 1
    /\ attempt = 0
    /\ pending = <<>>
    /\ LastSend = Ev(StageNames[1], "completed", 100, "found")

\* verify_report_links has been called in this run
InVerify == stage = 5 /\ At("invoke") # {}

\* the links with an external URL among those the probe loop has dealt with
ExternalDone ==
    SelectSeq(SubSeq(links, 1, link_idx - 1), LAMBDA l : ~IsInternal(l.url))

\* a HEAD request that raised or was answered with a status of 400 or more
Failed(p) == p.msg.status = 0 \/ p.msg.status >= 400

\* the external links dealt with whose request failed (TRUE) or did not
\* (FALSE), in the order of the text
ByProbe(failed) ==
    LET F[k \in 0..Len(ExternalDone)] ==
            IF k = 0 THEN <<>>
            ELSE IF Failed(Probes[k]) = failed THEN Append(F[k - 1], ExternalDone[k])
                 ELSE F[k - 1]
    IN  F[Len(ExternalDone)]

\* C32 (probes are never retried): during a verification one HEAD request
\* is made per occurrence of a link with an external URL, in the order of
\* the text and never a second one; the links whose request failed are
\* exactly the external links recorded as broken; verify_report_links is
\* called once per run, never ends in the executor's retry path, and the
\* run's result is a success whatever the probes gave.
C32_NoProbeRetry ==
    InVerify =>
        /\ N("invoke") = 1
        /\ Len(Probes) = Len(ExternalDone)
        /\ \A k \in 1..Len(Probes) : Probes[k].msg.url = ExternalDone[k].url
        /\ broken_links = ByProbe(TRUE)
        /\ SelectSeq(verified_links, LAMBDA l : ~IsInternal(l.url)) = ByProbe(FALSE)
        /\ pc \in {"probe", "return", "returned", "finish", "done"}
        /\ N("sleep") = 0 /\ N("raise") = 0 /\ ExecutorEvents = {}
        /\ pc \in {"returned", "finish", "done"} => (result.success /\ ~Aborted)

\* both requests of a verification failed, one with a transport error and
\* one with status 404, and the run's result is a success
C32_Witness ==
    /\ InVerify
    /\ pc = "returned"
    /\ Len(Probes) = 2
    /\ Probes[1].msg.status = 0
    /\ Probes[2].msg.status = 404
    /\ Len(broken_links) = 2
    /\ result.success

\* C33 as stated (link enhancement): when report_generation returns after a
\* 200 response with the draft, a second request to the generation service
\* has been made with that draft.
C33_AsStated ==
    (stage = 4 /\ pc = "return") =>
        \E i \in InAttempt("enhance") :
            trace[i].msg.draft = trace[SetMax(At("call"))].msg.body

\* length of the run of asterisks that starts at position i of s
StarRun(s, i) == SetMax({k \in 0..(Len(s) - i + 1) : \A j \in i..(i + k - 1) : s[j] = "*"})

\* the positions where a maximal run of exactly n asterisks starts
StarRuns(s, n) ==
    {i \in 1..Len(s) : s[i] = "*" /\ (i = 1 \/ s[i - 1] # "*") /\ StarRun(s, i) = n}

Stars(s) == Cardinality({i \in 1..Len(s) : s[i] = "*"})

\* the asterisks of s that belong to an emphasis pair: the single asterisks
\* pair up in order of appearance (italic), and so do the double ones (bold)
PairedStars(s) ==
    2 * (Cardinality(StarRuns(s, 1)) \div 2) + 4 * (Cardinality(StarRuns(s, 2)) \div 2)

\* C34 as stated (asterisk normalisation): the text clean_report_content
\* returns has no single asterisk left without a partner, and it still has
\* every asterisk that was part of a bold or italic pair of the text given.
C34_AsStated ==
    pc = "cleaned" =>
        /\ Cardinality(StarRuns(retval, 1)) % 2 = 0
        /\ Stars(retval) >= PairedStars(report)

\* the state of the loop of an extractor after the first k lines of the text
LoopAfter(name, text, k) == IF k = 0 THEN InitialLoop ELSE LoopEnd(name, Before(text, k + 1))

\* the link list of a record: `sources` of a case, `links` of a company
LinksOf(name, rec) ==
    LET key == IF name = "extract_cases_from_text" THEN "sources" ELSE "links"
    IN  IF key \in DOMAIN rec THEN rec[key] ELSE <<>>

IsPrefixOf(a, b) == Len(a) <= Len(b) /\ SubSeq(b, 1, Len(a)) = a

\* C35 as stated (link accumulation): in both extractors, a line read while
\* a record is open and staying open never shortens or changes the links
\* the record has collected, and a bare line beginning with `http` adds
\* itself at the end of them.
C35_AsStated ==
    pc \in LineExtractors =>
        \A k \in 1..Len(SplitLines(report)) :
            LET line == Strip(SplitLines(report)[k])
                a == LoopAfter(pc, report, k - 1)
                b == LoopAfter(pc, report, k)
            IN  (a.current # EmptyDict /\ b.current # EmptyDict /\ b.found = a.found) =>
                    /\ IsPrefixOf(LinksOf(pc, a.current), LinksOf(pc, b.current))
                    /\ StartsWith(line, <<"http">>) =>
                            LinksOf(pc, b.current) = Append(LinksOf(pc, a.current), line)

\* the stage events sent since the current stage was entered, by position
StageEventsSent ==
    {i \in At("send") : trace[i].msg.type = "stage_update" /\ trace[i].msg.stage = StageNames[stage]}

\* C36 as stated (an error event is terminal for its stage): once an event
\* with status `error` has been sent for a stage, no event with status
\* `active` or `completed` is sent for that stage and the stage function
\* does not return a result.
C36_AsStated ==
    stage \in 1..5 =>
        \A i \in StageEventsSent :
            trace[i].msg.status = "error" =>
                /\ \A j \in StageEventsSent :
                       j > i => trace[j].msg.status \notin {"active", "completed"}
                /\ pc # "return"

\* the stage function has returned and every event it left is sent
StageOver == stage \in 1..5 /\ Ready("return")

\* C37 as stated (a successful stage ends with `completed`): when a stage
\* has returned its result, the last event sent for it has status
\* `completed` and progress 100.
C37_AsStated ==
    StageOver =>
        /\ StageEventsSent # {}
        /\ trace[SetMax(StageEventsSent)].msg.status = "completed"
        /\ trace[SetMax(StageEventsSent)].msg.progress = 100

\* the step is one of a send_message call of run r: up to its await, or
\* from the return of send_text on
SendStepOf(r) ==
    \/ \E m \in Msgs : SendBegin(r, m, TRUE)
    \/ \E ok \in BOOLEAN : SendEnd(r, ok, TRUE)

\* C38 (run isolation): a step of send_message(R, m) leaves the registry
\* entry of every other run that holds a live websocket as it is, changes
\* the state of no websocket, and whatever it puts on the wire goes to a
\* websocket opened for R that is registered under no other run.
C38_RunIsolation ==
    [][\A r \in RunIds :
          SendStepOf(r) =>
              /\ \A q \in RunIds \ {r} :
                     LiveRegistered(q) =>
                         /\ q \in DOMAIN active_connections'
                         /\ active_connections'[q] = active_connections[q]
                         /\ LiveRegistered(q)'
              /\ client_state' = client_state
              /\ \A i \in 1..Len(lastDelivery') :
                     /\ ws_client[lastDelivery'[i].conn] = r
                     /\ \A q \in RunIds \ {r} :
                            q \in DOMAIN active_connections =>
                                active_connections[q] # lastDelivery'[i].conn
      ]_vars

\* send_text of a call of r1 raised and r1 lost its entry while r2 holds a
\* live websocket
C38_Witness ==
    /\ "r1" \in DOMAIN sends
    /\ sends["r1"].st = "caught"
    /\ "r1" \notin DOMAIN active_connections
    /\ LiveRegistered("r2")
    /\ ws_client[sends["r1"].conn] = "r1"

\* the line without the `**` it may start with
Unbold(line) == IF StartsWith(line, <<"**">>) THEN Tail(line) ELSE line

\* the line is the heading of a case
IsHeader(line) == Unbold(line) # <<>> /\ Unbold(line)[1] \in {"Case 1", "Case 2"}

\* the number a case heading carries
HeaderNumber(line) ==
    LET h == Unbold(line)
        first == IF h[1] = "Case 1" THEN 1 ELSE 2
    IN  IF Len(h) >= 2 /\ h[2] = "0" THEN 10 * first ELSE first

\* C39 as stated (consecutive case numbers): the k-th case returned has
\* number k and a title, and a line opens a case only when it is a case
\* heading that carries the next number expected.
C39_AsStated ==
    pc = "extract_cases_from_text" =>
        /\ \A k \in 1..Len(retval.value) :
               /\ retval.value[k]["number"] = k
               /\ "title" \in DOMAIN retval.value[k]
        /\ \A k \in 1..Len(SplitLines(report)) :
               LET line == Strip(SplitLines(report)[k])
                   a == LoopAfter(pc, report, k - 1)
                   b == LoopAfter(pc, report, k)
               IN  b.case_number # a.case_number =>
                       /\ IsHeader(line)
                       /\ HeaderNumber(line) = a.case_number

\* the stripped lines of the text that carry a company label
NameLines(text) ==
    SelectSeq([k \in 1..Len(SplitLines(text)) |-> Strip(SplitLines(text)[k])],
              LAMBDA line : AnyKeyword(line, {"company:", "name:"}))

\* C40 (every company record has a name): extract_companies_from_text
\* returns one record per company label line of the text, in order, each
\* with the `name` taken from its line; a label line is the only line that
\* opens a record and it closes the record open before it; a website,
\* country or http line read while no record is open changes nothing.
C40_Named ==
    pc = "extract_companies_from_text" =>
        /\ ~retval.raised
        /\ Len(retval.value) = Len(NameLines(report))
        /\ \A i \in 1..Len(retval.value) :
               /\ "name" \in DOMAIN retval.value[i]
               /\ retval.value[i]["name"] = LabelValue(NameLines(report)[i])
        /\ \A k \in 1..Len(SplitLines(report)) :
               LET line == Strip(SplitLines(report)[k])
                   a == LoopAfter(pc, report, k - 1)
                   b == LoopAfter(pc, report, k)
               IN  IF AnyKeyword(line, {"company:", "name:"})
                   THEN /\ b.current = [name |-> LabelValue(line)]
                        /\ b.found = IF a.current = EmptyDict THEN a.found
                                      ELSE Append(a.found, a.current)
                   ELSE /\ a.current = EmptyDict => b = a
                        /\ b.current # EmptyDict => "name" \in DOMAIN b.current

\* a link and a website line before the first company label, which opens
\* the only record
C40_Witness ==
    /\ pc = "extract_companies_from_text"
    /\ report = <<"http", "x", "\n", "URL:", "http", "\n", "Company:", " ", "x">>
    /\ retval.value = <<[name |-> <<"x">>]>>

====
